---------------------------- MODULE Spec2Model ----------------------------
(***************************************************************************)
(* Model of the Mirror reverse proxy (Orizzi/Mirror): the SSRF guard, the  *)
(* allowlist store, the file cache, the mirror registry and the proxy      *)
(* pipeline (resolveTargetUrl, fetchWithRedirectValidation,                *)
(* handleMirrorRequest).                                                   *)
(*                                                                         *)
(* Strings the code inspects character by character (host names, IP        *)
(* addresses) are sequences of one-character strings, so that startsWith,  *)
(* endsWith, split and the numeric parse are computed, not assumed.        *)
(***************************************************************************)
EXTENDS Integers, Sequences, FiniteSets, TLC

(***************************************************************************)
(* Character strings                                                       *)
(***************************************************************************)
Digits == <<"0", "1", "2", "3", "4", "5", "6", "7", "8", "9">>

IsDigit(c) == \E i \in 1..10 : Digits[i] = c

DigitVal(c) == (CHOOSE i \in 1..10 : Digits[i] = c) - 1

\* String.prototype.startsWith
StartsWith(s, p) == Len(s) >= Len(p) /\ SubSeq(s, 1, Len(p)) = p

\* String.prototype.endsWith
EndsWith(s, p) == Len(s) >= Len(p) /\ SubSeq(s, Len(s) - Len(p) + 1, Len(s)) = p

\* String.prototype.toLowerCase, on the letters the model uses
LowerChar(c) == CASE c = "A" -> "a" [] c = "B" -> "b" [] c = "X" -> "x" [] OTHER -> c

ToLowerCase(s) == [i \in 1..Len(s) |-> LowerChar(s[i])]

RECURSIVE TrimLeft(_, _)
TrimLeft(s, ch) == IF s # <<>> /\ Head(s) = ch THEN TrimLeft(Tail(s), ch) ELSE s

RECURSIVE TrimRight(_, _)
TrimRight(s, ch) ==
    IF s # <<>> /\ s[Len(s)] = ch THEN TrimRight(SubSeq(s, 1, Len(s) - 1), ch) ELSE s

\* String.prototype.trim (blanks are the only white space of the model)
Trim(s) == TrimRight(TrimLeft(s, " "), " ")

\* s.split('.'): the list of the parts between the dots
RECURSIVE SplitDots(_, _, _)
SplitDots(s, cur, acc) ==
    IF s = <<>> THEN Append(acc, cur)
    ELSE IF Head(s) = "." THEN SplitDots(Tail(s), <<>>, Append(acc, cur))
    ELSE SplitDots(Tail(s), Append(cur, Head(s)), acc)

Split(s) == SplitDots(s, <<>>, <<>>)

\* Number(octet) for a string of decimal digits
RECURSIVE DecValue(_, _)
DecValue(s, acc) == IF s = <<>> THEN acc ELSE DecValue(Tail(s), acc * 10 + DigitVal(Head(s)))

(***************************************************************************)
(* Host names and addresses of the model                                   *)
(***************************************************************************)
hAB == <<"a", ".", "b">>
hXAB == <<"x", ".", "a", ".", "b">>
hZAB == <<"z", "a", ".", "b">>
hCD == <<"c", ".", "d">>
hLocalhost == <<"l", "o", "c", "a", "l", "h", "o", "s", "t">>
hSubLocalhost == <<"a", ".", "l", "o", "c", "a", "l", "h", "o", "s", "t">>
hMetadataName == <<"m", "e", "t", "a", "d", "a", "t", "a", ".", "g", "o", "o", "g", "l", "e", ".",
                   "i", "n", "t", "e", "r", "n", "a", "l">>
ipMetadata == <<"1", "6", "9", ".", "2", "5", "4", ".", "1", "6", "9", ".", "2", "5", "4">>
ipLoopback == <<"1", "2", "7", ".", "0", ".", "0", ".", "1">>
ipPrivate10 == <<"1", "0", ".", "0", ".", "0", ".", "1">>
ipPrivate172 == <<"1", "7", "2", ".", "3", "1", ".", "2", "5", "5", ".", "2", "5", "5">>
ipLinkLocal == <<"1", "6", "9", ".", "2", "5", "4", ".", "0", ".", "9">>
ipMulticast == <<"2", "2", "4", ".", "0", ".", "0", ".", "1">>
ipPublic == <<"8", ".", "8", ".", "8", ".", "8">>
ipPublic172 == <<"1", "7", "2", ".", "3", "2", ".", "0", ".", "0">>
ip6Loopback == <<":", ":", "1">>
ip6LinkLocal == <<"f", "e", "8", "0", ":", ":", "1">>
ip6Public == <<"2", "0", "0", "1", ":", ":", "1">>
\* URL.hostname of an IPv6 literal keeps the brackets
hBracketLoopback == <<"[", ":", ":", "1", "]">>

(***************************************************************************)
(* SSRF guard (security/ssrf-guard)                                        *)
(***************************************************************************)
\* One octet as net.isIPv4 accepts it: 0..255 in decimal without leading zero
IsV4Octet(p) ==
    /\ Len(p) \in 1..3
    /\ \A i \in 1..Len(p) : IsDigit(p[i])
    /\ (Len(p) > 1 => p[1] # "0")
    /\ DecValue(p, 0) <= 255

HexChars == {"0", "1", "2", "3", "4", "5", "6", "7", "8", "9", "a", "b", "c", "d", "e", "f"}

\* net.isIP: 4 for a dotted quad, 6 for a colon-separated address, 0 otherwise
\* (a bracketed literal such as [::1] is not an address for net.isIP)
netIsIP(s) ==
    LET parts == Split(s) IN
    IF Len(parts) = 4 /\ \A i \in 1..4 : IsV4Octet(parts[i]) THEN 4
    ELSE IF /\ \E i \in 1..Len(s) : s[i] = ":"
            /\ \A i \in 1..Len(s) : s[i] \in HexChars \cup {":", "."}
         THEN 6
    ELSE 0

\* A 32-bit value is the pair <<high 16 bits, low 16 bits>>.
\* acc << 8 keeps the low 32 bits; adding an octet to it cannot carry
U32Shl8Add(v, octet) == << (v[1] % 256) * 256 + (v[2] \div 256), (v[2] % 256) * 256 + octet >>

U32Leq(v, w) == v[1] < w[1] \/ (v[1] = w[1] /\ v[2] <= w[2])

\* (acc << 8) + Number(octet), folded over the octets, then >>> 0
RECURSIVE ipFold(_, _)
ipFold(parts, acc) ==
    IF parts = <<>> THEN acc
    ELSE ipFold(Tail(parts), U32Shl8Add(acc, DecValue(Head(parts), 0)))

ipToInt(ip) == ipFold(Split(ip), <<0, 0>>)

IPV4_PRIVATE_RANGES ==
    << <<ipToInt(<<"0", ".", "0", ".", "0", ".", "0">>),
         ipToInt(<<"0", ".", "2", "5", "5", ".", "2", "5", "5", ".", "2", "5", "5">>)>>,
       <<ipToInt(<<"1", "0", ".", "0", ".", "0", ".", "0">>),
         ipToInt(<<"1", "0", ".", "2", "5", "5", ".", "2", "5", "5", ".", "2", "5", "5">>)>>,
       <<ipToInt(<<"1", "0", "0", ".", "6", "4", ".", "0", ".", "0">>),
         ipToInt(<<"1", "0", "0", ".", "1", "2", "7", ".", "2", "5", "5", ".", "2", "5", "5">>)>>,
       <<ipToInt(<<"1", "2", "7", ".", "0", ".", "0", ".", "0">>),
         ipToInt(<<"1", "2", "7", ".", "2", "5", "5", ".", "2", "5", "5", ".", "2", "5", "5">>)>>,
       <<ipToInt(<<"1", "6", "9", ".", "2", "5", "4", ".", "0", ".", "0">>),
         ipToInt(<<"1", "6", "9", ".", "2", "5", "4", ".", "2", "5", "5", ".", "2", "5", "5">>)>>,
       <<ipToInt(<<"1", "7", "2", ".", "1", "6", ".", "0", ".", "0">>),
         ipToInt(<<"1", "7", "2", ".", "3", "1", ".", "2", "5", "5", ".", "2", "5", "5">>)>>,
       <<ipToInt(<<"1", "9", "2", ".", "0", ".", "0", ".", "0">>),
         ipToInt(<<"1", "9", "2", ".", "0", ".", "0", ".", "2", "5", "5">>)>>,
       <<ipToInt(<<"1", "9", "2", ".", "0", ".", "2", ".", "0">>),
         ipToInt(<<"1", "9", "2", ".", "0", ".", "2", ".", "2", "5", "5">>)>>,
       <<ipToInt(<<"1", "9", "2", ".", "1", "6", "8", ".", "0", ".", "0">>),
         ipToInt(<<"1", "9", "2", ".", "1", "6", "8", ".", "2", "5", "5", ".", "2", "5", "5">>)>>,
       <<ipToInt(<<"1", "9", "8", ".", "1", "8", ".", "0", ".", "0">>),
         ipToInt(<<"1", "9", "8", ".", "1", "9", ".", "2", "5", "5", ".", "2", "5", "5">>)>>,
       <<ipToInt(<<"1", "9", "8", ".", "5", "1", ".", "1", "0", "0", ".", "0">>),
         ipToInt(<<"1", "9", "8", ".", "5", "1", ".", "1", "0", "0", ".", "2", "5", "5">>)>>,
       <<ipToInt(<<"2", "0", "3", ".", "0", ".", "1", "1", "3", ".", "0">>),
         ipToInt(<<"2", "0", "3", ".", "0", ".", "1", "1", "3", ".", "2", "5", "5">>)>>,
       <<ipToInt(<<"2", "2", "4", ".", "0", ".", "0", ".", "0">>),
         ipToInt(<<"2", "5", "5", ".", "2", "5", "5", ".", "2", "5", "5", ".", "2", "5", "5">>)>> >>

isPrivateIpv4(ip) ==
    LET value == ipToInt(ip) IN
    \E i \in 1..Len(IPV4_PRIVATE_RANGES) :
        U32Leq(IPV4_PRIVATE_RANGES[i][1], value) /\ U32Leq(value, IPV4_PRIVATE_RANGES[i][2])

V6Prefixes ==
    { <<"f", "c">>, <<"f", "d">>, <<"f", "e", "8", "0", ":">>,
      <<":", ":", "f", "f", "f", "f", ":", "1", "2", "7", ".">>,
      <<":", ":", "f", "f", "f", "f", ":", "1", "0", ".">>,
      <<":", ":", "f", "f", "f", "f", ":", "1", "9", "2", ".", "1", "6", "8", ".">>,
      <<":", ":", "f", "f", "f", "f", ":", "1", "7", "2", ".", "1", "6", ".">>,
      <<":", ":", "f", "f", "f", "f", ":", "1", "7", "2", ".", "1", "7", ".">>,
      <<":", ":", "f", "f", "f", "f", ":", "1", "7", "2", ".", "1", "8", ".">>,
      <<":", ":", "f", "f", "f", "f", ":", "1", "7", "2", ".", "1", "9", ".">>,
      <<":", ":", "f", "f", "f", "f", ":", "1", "7", "2", ".", "2">>,
      <<":", ":", "f", "f", "f", "f", ":", "1", "6", "9", ".", "2", "5", "4", ".">> }

isBlockedIpv6(ip) ==
    LET normalized == ToLowerCase(ip) IN
    \/ normalized = <<":", ":", "1">>
    \/ normalized = <<":", ":">>
    \/ \E p \in V6Prefixes : StartsWith(normalized, p)

\* The guard's functions return "ok" or the message of the Error they throw.
assertSafeIp(ip) ==
    LET family == netIsIP(ip) IN
    IF family = 0 THEN "invalid_ip"
    ELSE IF family = 4 /\ isPrivateIpv4(ip) THEN "ssrf_blocked"
    ELSE IF family = 6 /\ isBlockedIpv6(ip) THEN "ssrf_blocked"
    ELSE "ok"

assertSafeHostname(hostname) ==
    LET host == ToLowerCase(Trim(hostname)) IN
    IF host = <<>> THEN "empty_hostname"
    ELSE IF host = hLocalhost \/ EndsWith(host, <<".">> \o hLocalhost) THEN "ssrf_blocked"
    ELSE IF host = hMetadataName THEN "ssrf_blocked"
    ELSE IF host = ipMetadata THEN "ssrf_blocked"
    ELSE IF netIsIP(host) # 0 THEN assertSafeIp(host)
    ELSE "ok"

\* The first answer assertSafeIp rejects decides; "ok" when it rejects none
RECURSIVE firstUnsafe(_)
firstUnsafe(answers) ==
    IF answers = <<>> THEN "ok"
    ELSE IF assertSafeIp(Head(answers)) # "ok" THEN assertSafeIp(Head(answers))
    ELSE firstUnsafe(Tail(answers))

\* dns is what dns.lookup(hostname, {all: true}) gives: the answers, or the
\* message of the error it rejects with
assertSafeResolvedHost(hostname, dns) ==
    IF assertSafeHostname(hostname) # "ok" THEN assertSafeHostname(hostname)
    ELSE IF dns.err # "" THEN dns.err
    ELSE IF dns.answers = <<>> THEN "dns_resolution_failed"
    ELSE firstUnsafe(dns.answers)

assertSafeUrl(url, allowHttp, dns) ==
    IF url.protocol \notin {"https:", "http:"} THEN "invalid_scheme"
    ELSE IF url.protocol = "http:" /\ ~allowHttp THEN "invalid_scheme"
    ELSE IF url.cred THEN "credentials_not_allowed"
    ELSE assertSafeResolvedHost(url.hostname, dns)

\* What dns.lookup may answer for a host name: a literal address resolves to
\* itself; a name resolves to whatever the resolver says at that moment
DnsAnswerMenu ==
    { <<>>, <<ipPublic>>, <<ipPrivate10>>, <<ipPublic, ipLoopback>>, <<ip6Loopback>>, <<ip6Public>> }

\* The records of the zone d: the one address each of its names g1.d, g2.d, ...
\* resolves to (IPv4-mapped and other IPv6 addresses inside and outside the
\* blocked ranges)
GuardZone ==
    (<<"g", "1", ".", "d">> :> <<":", ":", "f", "f", "f", "f", ":", "0", ".", "0", ".", "0", ".", "0">>) @@
    (<<"g", "2", ".", "d">> :> <<":", ":", "f", "f", "f", "f", ":", "0", ".", "2", "5", "5", ".", "2", "5", "5", ".", "2", "5", "5">>) @@
    (<<"g", "3", ".", "d">> :> <<":", ":", "f", "f", "f", "f", ":", "1", "0", ".", "0", ".", "0", ".", "0">>) @@
    (<<"g", "4", ".", "d">> :> <<":", ":", "f", "f", "f", "f", ":", "1", "0", ".", "2", "5", "5", ".", "2", "5", "5", ".", "2", "5", "5">>) @@
    (<<"g", "5", ".", "d">> :> <<":", ":", "f", "f", "f", "f", ":", "1", "0", "0", ".", "6", "4", ".", "0", ".", "0">>) @@
    (<<"g", "6", ".", "d">> :> <<":", ":", "f", "f", "f", "f", ":", "1", "0", "0", ".", "1", "2", "7", ".", "2", "5", "5", ".", "2", "5", "5">>) @@
    (<<"g", "7", ".", "d">> :> <<":", ":", "f", "f", "f", "f", ":", "1", "2", "7", ".", "0", ".", "0", ".", "0">>) @@
    (<<"g", "8", ".", "d">> :> <<":", ":", "f", "f", "f", "f", ":", "1", "2", "7", ".", "2", "5", "5", ".", "2", "5", "5", ".", "2", "5", "5">>) @@
    (<<"g", "9", ".", "d">> :> <<":", ":", "f", "f", "f", "f", ":", "1", "6", "9", ".", "2", "5", "4", ".", "0", ".", "0">>) @@
    (<<"g", "1", "0", ".", "d">> :> <<":", ":", "f", "f", "f", "f", ":", "1", "6", "9", ".", "2", "5", "4", ".", "2", "5", "5", ".", "2", "5", "5">>) @@
    (<<"g", "1", "1", ".", "d">> :> <<":", ":", "f", "f", "f", "f", ":", "1", "7", "2", ".", "1", "6", ".", "0", ".", "0">>) @@
    (<<"g", "1", "2", ".", "d">> :> <<":", ":", "f", "f", "f", "f", ":", "1", "7", "2", ".", "3", "1", ".", "2", "5", "5", ".", "2", "5", "5">>) @@
    (<<"g", "1", "3", ".", "d">> :> <<":", ":", "f", "f", "f", "f", ":", "1", "9", "2", ".", "0", ".", "0", ".", "0">>) @@
    (<<"g", "1", "4", ".", "d">> :> <<":", ":", "f", "f", "f", "f", ":", "1", "9", "2", ".", "0", ".", "0", ".", "2", "5", "5">>) @@
    (<<"g", "1", "5", ".", "d">> :> <<":", ":", "f", "f", "f", "f", ":", "1", "9", "2", ".", "0", ".", "2", ".", "0">>) @@
    (<<"g", "1", "6", ".", "d">> :> <<":", ":", "f", "f", "f", "f", ":", "1", "9", "2", ".", "0", ".", "2", ".", "2", "5", "5">>) @@
    (<<"g", "1", "7", ".", "d">> :> <<":", ":", "f", "f", "f", "f", ":", "1", "9", "2", ".", "1", "6", "8", ".", "0", ".", "0">>) @@
    (<<"g", "1", "8", ".", "d">> :> <<":", ":", "f", "f", "f", "f", ":", "1", "9", "2", ".", "1", "6", "8", ".", "2", "5", "5", ".", "2", "5", "5">>) @@
    (<<"g", "1", "9", ".", "d">> :> <<":", ":", "f", "f", "f", "f", ":", "1", "9", "8", ".", "1", "8", ".", "0", ".", "0">>) @@
    (<<"g", "2", "0", ".", "d">> :> <<":", ":", "f", "f", "f", "f", ":", "1", "9", "8", ".", "1", "9", ".", "2", "5", "5", ".", "2", "5", "5">>) @@
    (<<"g", "2", "1", ".", "d">> :> <<":", ":", "f", "f", "f", "f", ":", "1", "9", "8", ".", "5", "1", ".", "1", "0", "0", ".", "0">>) @@
    (<<"g", "2", "2", ".", "d">> :> <<":", ":", "f", "f", "f", "f", ":", "1", "9", "8", ".", "5", "1", ".", "1", "0", "0", ".", "2", "5", "5">>) @@
    (<<"g", "2", "3", ".", "d">> :> <<":", ":", "f", "f", "f", "f", ":", "2", "0", "3", ".", "0", ".", "1", "1", "3", ".", "0">>) @@
    (<<"g", "2", "4", ".", "d">> :> <<":", ":", "f", "f", "f", "f", ":", "2", "0", "3", ".", "0", ".", "1", "1", "3", ".", "2", "5", "5">>) @@
    (<<"g", "2", "5", ".", "d">> :> <<":", ":", "f", "f", "f", "f", ":", "2", "2", "4", ".", "0", ".", "0", ".", "0">>) @@
    (<<"g", "2", "6", ".", "d">> :> <<":", ":", "f", "f", "f", "f", ":", "2", "5", "5", ".", "2", "5", "5", ".", "2", "5", "5", ".", "2", "5", "5">>) @@
    (<<"g", "2", "7", ".", "d">> :> <<":", ":", "f", "f", "f", "f", ":", "1", "7", "2", ".", "2", "0", ".", "1", ".", "1">>) @@
    (<<"g", "2", "8", ".", "d">> :> <<":", ":", "f", "f", "f", "f", ":", "1", "7", "2", ".", "3", "0", ".", "0", ".", "1">>) @@
    (<<"g", "2", "9", ".", "d">> :> <<":", ":", "f", "f", "f", "f", ":", "8", ".", "8", ".", "8", ".", "8">>) @@
    (<<"g", "3", "0", ".", "d">> :> <<":", ":", "f", "f", "f", "f", ":", "1", "7", "2", ".", "3", "2", ".", "0", ".", "0">>) @@
    (<<"g", "3", "1", ".", "d">> :> <<":", ":", "f", "f", "f", "f", ":", "1", "7", "2", ".", "1", "5", ".", "2", "5", "5", ".", "2", "5", "5">>) @@
    (<<"g", "3", "2", ".", "d">> :> <<":", ":", "f", "f", "f", "f", ":", "1", ".", "0", ".", "0", ".", "0">>) @@
    (<<"g", "3", "3", ".", "d">> :> <<":", ":", "f", "f", "f", "f", ":", "1", "0", "0", ".", "6", "3", ".", "2", "5", "5", ".", "2", "5", "5">>) @@
    (<<"g", "3", "4", ".", "d">> :> <<":", ":", "f", "f", "f", "f", ":", "1", "0", "0", ".", "1", "2", "8", ".", "0", ".", "0">>) @@
    (<<"g", "3", "5", ".", "d">> :> <<":", ":", "f", "f", "f", "f", ":", "1", "7", "2", ".", "2", ".", "0", ".", "1">>) @@
    (<<"g", "3", "6", ".", "d">> :> <<"f", "e", "8", "0", ":", ":", "1">>) @@
    (<<"g", "3", "7", ".", "d">> :> <<"f", "e", "9", "0", ":", ":", "1">>) @@
    (<<"g", "3", "8", ".", "d">> :> <<"f", "e", "b", "f", ":", ":", "1">>) @@
    (<<"g", "3", "9", ".", "d">> :> <<"f", "e", "c", "0", ":", ":", "1">>) @@
    (<<"g", "4", "0", ".", "d">> :> <<"f", "c", "0", "0", ":", ":", "1">>) @@
    (<<"g", "4", "1", ".", "d">> :> <<"f", "d", "f", "f", ":", ":", "1">>) @@
    (<<"g", "4", "2", ".", "d">> :> <<"f", "e", "0", "0", ":", ":", "1">>) @@
    (<<"g", "4", "3", ".", "d">> :> <<"2", "0", "0", "1", ":", ":", "1">>) @@
    (<<"g", "4", "4", ".", "d">> :> <<"F", "E", "8", "0", ":", ":", "1">>)

\* A bracketed literal is no address for net.isIP and no name getaddrinfo knows
dnsLookup(hostname) ==
    IF netIsIP(hostname) # 0 THEN { [err |-> "", answers |-> <<hostname>>] }
    ELSE IF StartsWith(hostname, <<"[">>) THEN { [err |-> "ENOTFOUND", answers |-> <<>>] }
    ELSE IF hostname \in DOMAIN GuardZone
    THEN { [err |-> "", answers |-> <<GuardZone[hostname]>>] }
    ELSE { [err |-> "", answers |-> a] : a \in DnsAnswerMenu }
         \cup { [err |-> "ENOTFOUND", answers |-> <<>>] }

(***************************************************************************)
(* URLs.  A URL is the record the WHATWG parser gives: protocol (with the  *)
(* colon), cred (a user name or password is present), hostname, port and   *)
(* path (pathname + search).                                               *)
(***************************************************************************)
MkUrl(protocol, hostname, path) ==
    [protocol |-> protocol, cred |-> FALSE, hostname |-> hostname, port |-> "", path |-> path]

\* `${url.protocol}//${url.host}` without the port
originOf_dropsPort(url) == <<url.protocol, url.hostname, "">>

\* `${url.protocol}//${url.host}`, kept as its three parts
originOf(url) == <<url.protocol, url.hostname, url.port>>

\* new URL(mirror.targetOrigin) with pathname and search set
urlOfOrigin(origin, path) ==
    [protocol |-> origin[1], cred |-> FALSE, hostname |-> origin[2], port |-> origin[3],
     path |-> path]

\* url.protocol.replace(':', '')
schemeOf(protocol) ==
    CASE protocol = "https:" -> "https" [] protocol = "http:" -> "http" [] OTHER -> "other"

(***************************************************************************)
(* Allowlist store (security/allowlist.ts)                                 *)
(***************************************************************************)
NoEntry == [id |-> "none"]

normalizeHost(host) == TrimRight(TrimLeft(ToLowerCase(Trim(host)), "."), ".")

Includes(seq, x) == \E i \in 1..Len(seq) : seq[i] = x

entryMatches(entry, host, scheme) ==
    /\ entry.enabled
    /\ Includes(entry.schemes, scheme)
    /\ \/ entry.host = host
       \/ entry.allowSubdomains /\ EndsWith(host, <<".">> \o entry.host)

\* AllowlistStore.match without `if (!entry.enabled) continue`
match_ignoresEnabled(entries, url) ==
    LET host == normalizeHost(url.hostname)
        scheme == schemeOf(url.protocol)
        hits == {i \in 1..Len(entries) :
                    /\ Includes(entries[i].schemes, scheme)
                    /\ \/ entries[i].host = host
                       \/ entries[i].allowSubdomains /\ EndsWith(host, <<".">> \o entries[i].host)}
    IN  IF hits = {} THEN [id |-> "none"]
        ELSE entries[CHOOSE i \in hits : \A j \in hits : i <= j]

\* AllowlistStore.match: the first entry, in list order, that matches
match(entries, url) ==
    LET host == normalizeHost(url.hostname)
        scheme == schemeOf(url.protocol)
        hits == {i \in 1..Len(entries) : entryMatches(entries[i], host, scheme)}
    IN  IF hits = {} THEN NoEntry
        ELSE entries[CHOOSE i \in hits : \A j \in hits : i <= j]

\* AllowlistStore.isAllowed answering for the host alone, whatever the scheme and enabled
isAllowed_hostOnly(entries, url) ==
    \E i \in 1..Len(entries) : entries[i].host = normalizeHost(url.hostname)

isAllowed(entries, url) == match(entries, url) # NoEntry

getById(entries, id) ==
    LET hits == {i \in 1..Len(entries) : entries[i].id = id}
    IN  IF hits = {} THEN NoEntry
        ELSE entries[CHOOSE i \in hits : \A j \in hits : i <= j]

\* AllowlistStore.upsert without the findIndex of line 57: the entry is always pushed
upsert_alwaysPushes(entries, entry) ==
    Append(entries, [entry EXCEPT !.host = normalizeHost(entry.host),
                                  !.schemes = IF Len(entry.schemes) # 0 THEN entry.schemes
                                              ELSE <<"https">>])

\* AllowlistStore.upsert: the list after the call
upsert(entries, entry) ==
    LET normalized == [entry EXCEPT !.host = normalizeHost(entry.host),
                                    !.schemes = IF Len(entry.schemes) # 0 THEN entry.schemes
                                                ELSE <<"https">>]
        hits == {i \in 1..Len(entries) : entries[i].id = normalized.id}
    IN  IF hits # {}
        THEN [entries EXCEPT ![CHOOSE i \in hits : \A j \in hits : i <= j] = normalized]
        ELSE Append(entries, normalized)

\* AllowlistStore.patch: p is the partial entry, a function on the fields given
patch(entries, id, p) ==
    LET current == getById(entries, id)
        merged == [f \in DOMAIN current |-> IF f \in DOMAIN p THEN p[f] ELSE current[f]]
        next == [merged EXCEPT
                   !.host = IF "host" \in DOMAIN p /\ p.host # <<>>
                            THEN normalizeHost(p.host) ELSE current.host,
                   !.schemes = IF "schemes" \in DOMAIN p /\ Len(p.schemes) # 0
                               THEN p.schemes ELSE current.schemes]
    IN  IF current = NoEntry THEN entries ELSE upsert(entries, next)

\* AllowlistStore.remove: the list after the call
remove(entries, id) == LET keep(e) == e.id # id IN SelectSeq(entries, keep)

\* AllowlistStore.reload: the entries of the file, normalised
reload(fileEntries) ==
    LET ok(sch) == sch = "https" \/ sch = "http"
    IN  [i \in 1..Len(fileEntries) |->
            [fileEntries[i] EXCEPT !.host = normalizeHost(fileEntries[i].host),
                                   !.schemes = SelectSeq(fileEntries[i].schemes, ok)]]

(***************************************************************************)
(* Mirror registry (db/sqlite: table mirrors, rows in insertion order)     *)
(***************************************************************************)
NoMirror == [slug |-> <<>>]

NoPath == "null"

FirstIndex(S) == CHOOSE i \in S : \A j \in S : i <= j

findMirrorBySlug(rows, slug) ==
    LET hits == {i \in 1..Len(rows) : rows[i].slug = slug}
    IN  IF hits = {} THEN NoMirror ELSE rows[FirstIndex(hits)]

\* WHERE target_origin = ? AND disabled = 1
findMirrorByOrigin_disabledRows(rows, targetOrigin) ==
    LET hits == {i \in 1..Len(rows) : rows[i].targetOrigin = targetOrigin /\ rows[i].disabled}
    IN  IF hits = {} THEN NoMirror ELSE rows[FirstIndex(hits)]

\* WHERE target_origin = ? AND disabled = 0
findMirrorByOrigin(rows, targetOrigin) ==
    LET hits == {i \in 1..Len(rows) : rows[i].targetOrigin = targetOrigin /\ ~rows[i].disabled}
    IN  IF hits = {} THEN NoMirror ELSE rows[FirstIndex(hits)]

\* INSERT INTO mirrors ...; slug is UNIQUE, so the insert of a taken slug throws
createMirror(rows, slug, targetOrigin, lastPath) ==
    Append(rows, [slug |-> slug, targetOrigin |-> targetOrigin, lastPath |-> lastPath,
                  disabled |-> FALSE])

\* UPDATE mirrors SET last_path = COALESCE(?, last_path) WHERE slug = ?
touchMirror(rows, slug, lastPath) ==
    [i \in 1..Len(rows) |->
        IF rows[i].slug = slug /\ lastPath # NoPath
        THEN [rows[i] EXCEPT !.lastPath = lastPath] ELSE rows[i]]

setMirrorDisabled(rows, slug, disabled) ==
    [i \in 1..Len(rows) |->
        IF rows[i].slug = slug THEN [rows[i] EXCEPT !.disabled = disabled] ELSE rows[i]]

(***************************************************************************)
(* Slug allocation (mirror/proxy)                                          *)
(***************************************************************************)
LowerAlnum ==
    {"a", "b", "c", "d", "e", "f", "g", "h", "i", "j", "k", "l", "m", "n", "o", "p", "q", "r",
     "s", "t", "u", "v", "w", "x", "y", "z", "0", "1", "2", "3", "4", "5", "6", "7", "8", "9"}

\* replace(/[^a-z0-9]+/g, '-'): every run of other characters becomes one dash
RECURSIVE foldRuns(_, _)
foldRuns(s, acc) ==
    IF s = <<>> THEN acc
    ELSE IF Head(s) \in LowerAlnum THEN foldRuns(Tail(s), Append(acc, Head(s)))
    ELSE IF acc # <<>> /\ acc[Len(acc)] = "-" THEN foldRuns(Tail(s), acc)
    ELSE foldRuns(Tail(s), Append(acc, "-"))

Slice(s, n) == IF Len(s) > n THEN SubSeq(s, 1, n) ELSE s

slugifyHost(host) ==
    LET folded == foldRuns(ToLowerCase(host), <<>>)
        stripped == TrimRight(TrimLeft(folded, "-"), "-")
        cut == Slice(stripped, 48)
    IN  IF cut = <<>> THEN <<"s", "i", "t", "e">> ELSE cut

\* String(i) for i >= 0
RECURSIVE IntToChars(_)
IntToChars(i) ==
    IF i < 10 THEN <<Digits[i + 1]>> ELSE Append(IntToChars(i \div 10), Digits[(i % 10) + 1])

\* crypto.randomBytes(3).toString('hex'): any six hex digits (two are modelled)
RandomSuffixes == {<<"0", "0", "0", "0", "0", "0">>, <<"a", "b", "c", "d", "e", "f">>}

\* for (let i = 2; i < 1000; i += 1): the first free numbered slug from i on, <<>> if none
firstFreeNumbered(base, taken, i) ==
    LET numbered(k) == base \o <<"-">> \o IntToChars(k)
        free == {k \in i..999 : numbered(k) \notin taken}
    IN  IF free = {} THEN <<>> ELSE numbered(FirstIndex(free))

\* ensureUniqueSlug: the slugs the call may return (one, unless the suffix is random)
ensureUniqueSlug(base, taken) ==
    LET next == firstFreeNumbered(base, taken, 2)
    IN  IF base \notin taken THEN {base}
        ELSE IF next # <<>> THEN {next}
        ELSE {base \o <<"-">> \o x : x \in RandomSuffixes}

(***************************************************************************)
(* File cache (cache/file-cache.ts).  The directory is a function from     *)
(* file names to contents.  A file name <safeSlug>_<cacheKey>.<ext> is the *)
(* record [stem, key, ext] with stem = safeSlug(slug) + "_".               *)
(***************************************************************************)
\* config.MIRROR_CACHE_TTL_SECONDS and config.MIRROR_CACHE_MAX_BYTES, scaled down
ttlSeconds == 1

maxBytes == 4

SlugSafeChars == LowerAlnum \cup {"A", "B", "X", "_", "-"}

\* slug.replace(/[^a-zA-Z0-9_-]/g, '_').slice(0, 80) || 'default'
safeSlug(slug) ==
    LET folded == [i \in 1..Len(slug) |-> IF slug[i] \in SlugSafeChars THEN slug[i] ELSE "_"]
        cut == Slice(folded, 80)
    IN  IF cut = <<>> THEN <<"d", "e", "f", "a", "u", "l", "t">> ELSE cut

\* FileCache.key: SHA-256 of `${method}:${url}`, modelled as the pair itself
key(method, url) == <<method, url>>

metaPath(slug, cacheKey) == [stem |-> safeSlug(slug) \o <<"_">>, key |-> cacheKey, ext |-> ".json"]

bodyPath(slug, cacheKey) == [stem |-> safeSlug(slug) \o <<"_">>, key |-> cacheKey, ext |-> ".bin"]

\* fs.rmSync(path, {force: true})
rmSync(files, name) == [n \in (DOMAIN files) \ {name} |-> files[n]]

\* fs.writeFileSync(path, content)
writeFileSync(files, name, content) ==
    [n \in (DOMAIN files) \cup {name} |-> IF n = name THEN content ELSE files[n]]

removePair(files, metaName, bodyName) == rmSync(rmSync(files, metaName), bodyName)

\* The age test with twice the time to live
expired_twiceTtl(meta, now) == (now - meta.cachedAt) > 2 * ttlSeconds * 1000

\* (Date.now() - meta.cachedAt) / 1000 > this.ttlSeconds
expired(meta, now) == (now - meta.cachedAt) > ttlSeconds * 1000

NoCached == [status |-> 0]

\* FileCache.get with a hit writing the metadata file back with cachedAt = now
get_rewritesMeta(files, slug, cacheKey, now) ==
    LET metaFile == metaPath(slug, cacheKey) IN
    IF metaFile \notin DOMAIN files THEN [files |-> files, result |-> NoCached]
    ELSE LET meta == files[metaFile] IN
         IF expired(meta, now)
         THEN [files |-> removePair(files, metaFile, meta.bodyFile), result |-> NoCached]
         ELSE IF meta.bodyFile \notin DOMAIN files
         THEN [files |-> rmSync(files, metaFile), result |-> NoCached]
         ELSE [files |-> writeFileSync(files, metaFile, [meta EXCEPT !.cachedAt = now]),
               result |-> [status |-> meta.status, headers |-> meta.headers,
                           body |-> files[meta.bodyFile], contentType |-> meta.contentType,
                           cachedAt |-> meta.cachedAt]]

\* FileCache.get: the directory after the call and what the call returns
get(files, slug, cacheKey, now) ==
    LET metaFile == metaPath(slug, cacheKey) IN
    IF metaFile \notin DOMAIN files THEN [files |-> files, result |-> NoCached]
    ELSE LET meta == files[metaFile] IN
         IF expired(meta, now)
         THEN [files |-> removePair(files, metaFile, meta.bodyFile), result |-> NoCached]
         ELSE IF meta.bodyFile \notin DOMAIN files
         THEN [files |-> rmSync(files, metaFile), result |-> NoCached]
         ELSE [files |-> files,
               result |-> [status |-> meta.status, headers |-> meta.headers,
                           body |-> files[meta.bodyFile], contentType |-> meta.contentType,
                           cachedAt |-> meta.cachedAt]]

\* prune, first loop: walk the listing, drop orphans and expired entries, collect the rest
RECURSIVE pruneWalk(_, _, _, _)
pruneWalk(listing, files, metas, now) ==
    IF listing = <<>> THEN [files |-> files, metas |-> metas]
    ELSE LET file == Head(listing) IN
         IF file.ext # ".json" \/ file \notin DOMAIN files
         THEN pruneWalk(Tail(listing), files, metas, now)
         ELSE LET meta == files[file] IN
              IF meta.bodyFile \notin DOMAIN files
              THEN pruneWalk(Tail(listing), rmSync(files, file), metas, now)
              ELSE IF expired(meta, now)
              THEN pruneWalk(Tail(listing), removePair(files, file, meta.bodyFile), metas, now)
              ELSE pruneWalk(Tail(listing), files,
                             Append(metas, [metaPath |-> file, bodyPath |-> meta.bodyFile,
                                            cachedAt |-> meta.cachedAt, size |-> meta.size]),
                             now)

RECURSIVE sumSizes(_)
sumSizes(metas) == IF metas = <<>> THEN 0 ELSE Head(metas).size + sumSizes(Tail(metas))

\* Line 154 left out: the entries stay in the order readdirSync listed them
sortByCachedAt_unsorted(metas, sorted) == sorted \o metas

\* metas.sort((a, b) => a.cachedAt - b.cachedAt): a stable sort
RECURSIVE insertSorted(_, _)
insertSorted(sorted, item) ==
    IF sorted = <<>> THEN <<item>>
    ELSE IF sorted[Len(sorted)].cachedAt <= item.cachedAt THEN Append(sorted, item)
    ELSE Append(insertSorted(SubSeq(sorted, 1, Len(sorted) - 1), item), sorted[Len(sorted)])

RECURSIVE sortByCachedAt(_, _)
sortByCachedAt(metas, sorted) ==
    IF metas = <<>> THEN sorted
    ELSE sortByCachedAt(Tail(metas), insertSorted(sorted, Head(metas)))

\* prune, second loop: evict from the front until the total fits
RECURSIVE evict(_, _, _)
evict(metas, files, total) ==
    IF metas = <<>> \/ total <= maxBytes THEN files
    ELSE evict(Tail(metas), removePair(files, Head(metas).metaPath, Head(metas).bodyPath),
               total - Head(metas).size)

\* FileCache.prune without lines 152-159: nothing is evicted for size
prune_noEviction(files, listing, now) == pruneWalk(listing, files, <<>>, now).files

\* FileCache.prune; listing is what fs.readdirSync returned
prune(files, listing, now) ==
    LET walked == pruneWalk(listing, files, <<>>, now)
        total == sumSizes(walked.metas)
    IN  IF total <= maxBytes THEN walked.files
        ELSE evict(sortByCachedAt(walked.metas, <<>>), walked.files, total)

\* The orders in which fs.readdirSync may list the directory
RECURSIVE listings(_)
listings(names) ==
    IF names = {} THEN {<<>>}
    ELSE UNION {{<<n>> \o rest : rest \in listings(names \ {n})} : n \in names}

\* The writes of set with line 76 skipped when the body file is already there
setWrites_keepsBody(files, slug, cacheKey, response, now) ==
    LET size == response.body.size
        body == IF bodyPath(slug, cacheKey) \in DOMAIN files
                THEN files[bodyPath(slug, cacheKey)] ELSE response.body
    IN  IF size * 2 > maxBytes THEN files
        ELSE writeFileSync(
                 writeFileSync(files, bodyPath(slug, cacheKey), body),
                 metaPath(slug, cacheKey),
                 [cacheKey |-> cacheKey, slug |-> slug, cachedAt |-> now,
                  contentType |-> response.contentType, status |-> response.status,
                  headers |-> response.headers, bodyFile |-> bodyPath(slug, cacheKey),
                  size |-> size])

\* FileCache.set, before its prune: the directory after the two writes
setWrites(files, slug, cacheKey, response, now) ==
    LET size == response.body.size IN
    IF size * 2 > maxBytes THEN files
    ELSE writeFileSync(
             writeFileSync(files, bodyPath(slug, cacheKey), response.body),
             metaPath(slug, cacheKey),
             [cacheKey |-> cacheKey, slug |-> slug, cachedAt |-> now,
              contentType |-> response.contentType, status |-> response.status,
              headers |-> response.headers, bodyFile |-> bodyPath(slug, cacheKey),
              size |-> size])

\* FileCache.set with the refusal of line 75 placed after the writes' place: an
\* oversized body is not written, but prune still runs
set_prunesOnRefusal(files, slug, cacheKey, response, now) ==
    LET written == setWrites(files, slug, cacheKey, response, now)
    IN  {prune(written, l, now) : l \in listings({n \in DOMAIN written : n.ext = ".json"})}

\* FileCache.set: the directories the call may leave, one per order in which
\* readdirSync lists the .json names (prune skips the other names it is given)
set(files, slug, cacheKey, response, now) ==
    IF response.body.size * 2 > maxBytes THEN {files}
    ELSE LET written == setWrites(files, slug, cacheKey, response, now)
         IN  {prune(written, l, now) : l \in listings({n \in DOMAIN written : n.ext = ".json"})}

EmptyDir == [n \in {} |-> 0]

purgeAll(files) == EmptyDir

\* purgeBySlug with the prefix safeSlug(slug), without the underscore after it
purgeBySlug_noSeparator(files, slug) ==
    [n \in {m \in DOMAIN files : ~StartsWith(m.stem, safeSlug(slug))} |-> files[n]]

purgeBySlug(files, slug) ==
    [n \in {m \in DOMAIN files : ~StartsWith(m.stem, safeSlug(slug) \o <<"_">>)} |-> files[n]]

\* FileCache.stats: entries and bytes of the metadata files that are not expired
stats(files, now) ==
    LET live == {n \in DOMAIN files : n.ext = ".json" /\ ~expired(files[n], now)}
        RECURSIVE sum(_)
        sum(S) == IF S = {} THEN 0 ELSE LET n == CHOOSE x \in S : TRUE
                                        IN  files[n].size + sum(S \ {n})
    IN  [entries |-> Cardinality(live), usedBytes |-> sum(live)]

(***************************************************************************)
(* HTTP messages                                                           *)
(***************************************************************************)
NoUrl == [protocol |-> "", cred |-> FALSE, hostname |-> <<>>, port |-> "", path |-> ""]

NoBody == [src |-> "none", rewritten |-> FALSE, size |-> 0]

NoHeaders == [n \in {} |-> ""]

\* reply.header(key, value): a later value for a name replaces the earlier one
setHeader(headers, name, value) ==
    [n \in (DOMAIN headers) \cup {name} |-> IF n = name THEN value ELSE headers[n]]

hopByHop ==
    {"connection", "transfer-encoding", "keep-alive", "proxy-authenticate",
     "proxy-authorization", "te", "trailers", "upgrade"}

\* copySafeHeaders without the set-cookie test of line 48
copySafeHeaders_keepsCookies(replyHeaders, headers, rewrittenBody) ==
    LET copied == {k \in DOMAIN headers :
                      /\ k \notin hopByHop
                      /\ k # "content-security-policy"
                      /\ ~(rewrittenBody /\ k \in {"content-length", "content-encoding", "etag"})}
        merged == [n \in (DOMAIN replyHeaders) \cup copied |->
                      IF n \in copied THEN headers[n] ELSE replyHeaders[n]]
    IN  setHeader(merged, "x-robots-tag", "noindex, nofollow")

\* copySafeHeaders: the reply's headers after the call.  headers.entries() of
\* undici gives lower-case names, so key.toLowerCase() is the name itself.
copySafeHeaders(replyHeaders, headers, rewrittenBody) ==
    LET copied == {k \in DOMAIN headers :
                      /\ k \notin hopByHop
                      /\ k # "content-security-policy"
                      /\ k # "set-cookie"
                      /\ ~(rewrittenBody /\ k \in {"content-length", "content-encoding", "etag"})}
        merged == [n \in (DOMAIN replyHeaders) \cup copied |->
                      IF n \in copied THEN headers[n] ELSE replyHeaders[n]]
    IN  setHeader(merged, "x-robots-tag", "noindex, nofollow")

\* response.headers.get('content-type') ?? 'application/octet-stream'
contentTypeOf(headers) ==
    IF "content-type" \in DOMAIN headers THEN headers["content-type"]
    ELSE "application/octet-stream"

\* contentType.includes('text/html'), .includes('text/css') and the text-like test,
\* on the content types of the model
isHtml(contentType) == contentType \in {"text/html", "text/html; charset=utf-8"}

isCss(contentType) == contentType \in {"text/css"}

textLike(contentType) ==
    \/ isHtml(contentType)
    \/ isCss(contentType)
    \/ contentType \in {"application/javascript", "application/json", "text/plain"}

\* config.MIRROR_MAX_HTML_BYTES and config.MIRROR_MAX_BINARY_BYTES, scaled down
MIRROR_MAX_HTML_BYTES == 2

MIRROR_MAX_BINARY_BYTES == 2

\* The rewriters return a new document: the body is marked rewritten, and the
\* injected robots meta element or the longer /m/<slug> paths make it one unit longer
rewriteBody(body) == [src |-> body.src, rewritten |-> TRUE, size |-> body.size + 1]

\* message.includes('timeout'), on the error messages of the model
includesTimeout(message) == message \in {"The operation was aborted due to timeout"}

\* handleMirrorRequest's catch block: the event kind and the status for a message
proxyErrorKind(message) ==
    IF message = "ssrf_blocked" THEN "ssrf-blocked"
    ELSE IF includesTimeout(message) THEN "upstream-timeout"
    ELSE "proxy-error"

\* Line 274 with 500 in the place of 502
proxyErrorStatus_else500(message) ==
    IF message = "domain_not_allowed" \/ message = "ssrf_blocked" THEN 403
    ELSE IF message = "invalid_url" THEN 400
    ELSE 500

proxyErrorStatus(message) ==
    IF message = "domain_not_allowed" \/ message = "ssrf_blocked" THEN 403
    ELSE IF message = "invalid_url" THEN 400
    ELSE 502

\* POST /api/resolve's catch block: the status for a message
resolveErrorStatus(message) ==
    IF message = "invalid_url" \/ message = "invalid_scheme" THEN 400
    ELSE IF message = "domain_not_allowed" \/ message = "ssrf_blocked" THEN 403
    ELSE IF message = "rate_limited" THEN 429
    ELSE 400

\* The part of assertSafeUrl that runs before dns.lookup suspends the caller
guardBeforeLookup(url, allowHttp) ==
    IF url.protocol \notin {"https:", "http:"} THEN "invalid_scheme"
    ELSE IF url.protocol = "http:" /\ ~allowHttp THEN "invalid_scheme"
    ELSE IF url.cred THEN "credentials_not_allowed"
    ELSE assertSafeHostname(url.hostname)

\* for (let hop = 0; hop < 5; hop += 1)
MaxHops == 5

(***************************************************************************)
(* State                                                                   *)
(***************************************************************************)
VARIABLES
    allowHttp,        \* config.MIRROR_ENABLE_HTTP
    allowlist,        \* AllowlistStore.state.entries
    allowlistFile,    \* the entries of the allowlist file on disk
    serviceDisabled,  \* services.state.serviceDisabled
    mirrors,          \* the rows of table mirrors
    files,            \* the cache directory
    now,              \* Date.now(), in milliseconds
    reqs,             \* the HTTP requests being served, one per client
    adminEvent,       \* the last admin-action or cache-purge event logged
    lastMiss,         \* history: the last GET served from upstream and cached
    started,          \* history: how many requests the clients have sent
    cacheOp,          \* history: the last call made to the FileCache directly
    fsPending,        \* the file-system calls the FileCache call in progress has still to make
    page,             \* the HTML document a rewriter is applied to, and how often it was
    allowlistDisk     \* the text of the allowlist file, and the store call that is writing it

vars ==
    <<allowHttp, allowlist, allowlistFile, serviceDisabled, mirrors, files, now, reqs,
      adminEvent, lastMiss, started, cacheOp, fsPending, page, allowlistDisk>>

\* The two clients whose requests the server handles concurrently
Clients == {"c1", "c2"}

\* The allowed methods with POST among them
methodsAllowed_withPost == {"GET", "HEAD", "POST"}

methodsAllowed == {"GET", "HEAD"}

NoReply == [status |-> 0, error |-> "", headers |-> NoHeaders, body |-> NoBody,
            slug |-> <<>>, created |-> FALSE]

NoResponse == [status |-> 0, location |-> NoUrl, headers |-> NoHeaders, body |-> NoBody]

NoFetch == [url |-> NoUrl, guard |-> "", entry |-> "none"]

NoMiss == [slug |-> <<>>, key |-> <<>>, status |-> 0, body |-> NoBody, at |-> 0]

\* No call has been made to the FileCache directly.  Of a call: the operation,
\* its arguments, the time, whether the entry's metadata file was there before
\* and how old it was, the size of the body given to set, what get returned, and
\* the files the call removed with what they held.
NoOp == [op |-> "none", slug |-> <<>>, key |-> <<>>, at |-> 0, had |-> FALSE, age |-> 0,
         size |-> 0, result |-> NoCached, removed |-> <<>>]

\* The allowlist file holds the JSON document of allowlistFile (text "document") or
\* is zero bytes long (text "empty"); no call of the store is writing it
FileAtRest == [text |-> "document", writer |-> "none"]

\* No document is being rewritten
NoPage ==
    [passes |-> 0, html |-> <<>>, input |-> <<>>, previous |-> <<>>, baseUrl |-> <<>>,
     targetOrigin |-> <<>>, slug |-> <<>>]

\* A client with no request in progress.  upstreamUrl is the URL the request is
\* about: the one posted to /api/resolve, or the one a mirror request maps to.
\* events are the rows the request added
\* to table events; fetches, redirects, lastFetch, chain, allowedSeen, expect,
\* overlapped (another resolve was waiting for its DNS lookup when this one
\* started), upstream (the response that ended the redirect loop), removed
\* (the request's cache lookup removed files) and connected (the address the
\* latest fetch opened its connection to) are history the properties read,
\* not state of the program.
Idle ==
    [kind |-> "none", pc |-> "idle", method |-> "", slug |-> <<>>, upstreamUrl |-> NoUrl,
     current |-> NoUrl, next |-> NoUrl, hop |-> 0, targetOrigin |-> <<>>,
     response |-> NoResponse, reply |-> NoReply, events |-> <<>>,
     fetches |-> 0, redirects |-> 0, lastFetch |-> NoFetch, chain |-> 0,
     allowedSeen |-> FALSE, expect |-> NoMiss, overlapped |-> FALSE,
     upstream |-> NoResponse, removed |-> FALSE, connected |-> <<>>]

Event(kind, error) == [kind |-> kind, error |-> error]

\* reply.code(status).send({ok: false, error})
errorReply(status, error) == [NoReply EXCEPT !.status = status, !.error = error]

\* The request q, answered with reply; the handler's locals are gone
finish(q, reply) ==
    [q EXCEPT !.pc = "done", !.reply = reply, !.current = NoUrl, !.next = NoUrl, !.hop = 0,
              !.response = NoResponse, !.targetOrigin = <<>>]

\* handleMirrorRequest's catch block for the Error with this message
failMirror(q, message) ==
    finish([q EXCEPT !.events = Append(q.events, Event(proxyErrorKind(message), message))],
           errorReply(proxyErrorStatus(message), message))

\* POST /api/resolve's catch block for the Error with this message
failResolve(q, message) ==
    finish([q EXCEPT !.events = Append(q.events, Event("resolve-fail", message))],
           errorReply(resolveErrorStatus(message), message))

(***************************************************************************)
(* Admin operations (routes/internal)                                      *)
(***************************************************************************)
AllowlistUpsert(entry) ==
    /\ allowlist' = upsert(allowlist, entry)
    /\ allowlistFile' = allowlist'
    /\ adminEvent' = "Allowlist entry upserted"
    /\ UNCHANGED <<allowHttp, serviceDisabled, mirrors, files, now, reqs, lastMiss, started, cacheOp, fsPending, page, allowlistDisk>>

AllowlistPatch(id, p) ==
    /\ allowlist' = patch(allowlist, id, p)
    /\ allowlistFile' = IF getById(allowlist, id) = NoEntry THEN allowlistFile ELSE allowlist'
    /\ adminEvent' = IF getById(allowlist, id) = NoEntry THEN adminEvent
                     ELSE "Allowlist entry updated"
    /\ UNCHANGED <<allowHttp, serviceDisabled, mirrors, files, now, reqs, lastMiss, started, cacheOp, fsPending, page, allowlistDisk>>

AllowlistRemove(id) ==
    /\ allowlist' = remove(allowlist, id)
    /\ allowlistFile' = IF Len(allowlist') # Len(allowlist) THEN allowlist' ELSE allowlistFile
    /\ adminEvent' = IF Len(allowlist') # Len(allowlist) THEN "Allowlist entry deleted"
                     ELSE adminEvent
    /\ UNCHANGED <<allowHttp, serviceDisabled, mirrors, files, now, reqs, lastMiss, started, cacheOp, fsPending, page, allowlistDisk>>

AllowlistReload ==
    /\ allowlist' = reload(allowlistFile)
    /\ adminEvent' = "Config reloaded"
    /\ UNCHANGED <<allowHttp, allowlistFile, serviceDisabled, mirrors, files, now, reqs, lastMiss, started,
                   cacheOp, fsPending, page, allowlistDisk>>

ServiceDisable ==
    /\ serviceDisabled' = TRUE
    /\ adminEvent' = "Service disabled"
    /\ UNCHANGED <<allowHttp, allowlist, allowlistFile, mirrors, files, now, reqs, lastMiss, started,
                   cacheOp, fsPending, page, allowlistDisk>>

ServiceEnable ==
    /\ serviceDisabled' = FALSE
    /\ adminEvent' = "Service enabled"
    /\ UNCHANGED <<allowHttp, allowlist, allowlistFile, mirrors, files, now, reqs, lastMiss, started,
                   cacheOp, fsPending, page, allowlistDisk>>

CachePurgeAll ==
    /\ files' = purgeAll(files)
    /\ adminEvent' = "Cache purged"
    /\ lastMiss' = NoMiss
    /\ UNCHANGED <<allowHttp, allowlist, allowlistFile, serviceDisabled, mirrors, now, reqs, started,
                   cacheOp, fsPending, page, allowlistDisk>>

CachePurgeBySlug(slug) ==
    /\ files' = purgeBySlug(files, slug)
    /\ adminEvent' = "Cache purged by slug"
    /\ lastMiss' = NoMiss
    /\ UNCHANGED <<allowHttp, allowlist, allowlistFile, serviceDisabled, mirrors, now, reqs, started,
                   cacheOp, fsPending, page, allowlistDisk>>

\* MirrorDb.setMirrorDisabled
MirrorSetDisabled(slug, disabled) ==
    /\ findMirrorBySlug(mirrors, slug) # NoMirror
    /\ mirrors' = setMirrorDisabled(mirrors, slug, disabled)
    /\ UNCHANGED <<allowHttp, allowlist, allowlistFile, serviceDisabled, files, now, reqs,
                   adminEvent, lastMiss, started, cacheOp, fsPending, page, allowlistDisk>>

\* The clock advances by the time to live
TickMs == ttlSeconds * 1000

Tick(limit) ==
    /\ now + TickMs <= limit
    /\ now' = now + TickMs
    /\ UNCHANGED <<allowHttp, allowlist, allowlistFile, serviceDisabled, mirrors, files, reqs,
                   adminEvent, lastMiss, started, cacheOp, fsPending, page, allowlistDisk>>

(***************************************************************************)
(* POST /api/resolve (routes/public) and resolveTargetUrl (mirror/proxy)   *)
(***************************************************************************)
\* The request body the client posts: a URL the parser accepts, or text it rejects
Unparseable == [protocol |-> "unparseable", cred |-> FALSE, hostname |-> <<>>, port |-> "",
                path |-> ""]

\* resolveOrCreateMirrorForUrl without lines 96-100: a row is always inserted
resolveOrCreateMirrorForUrl_alwaysCreates(rows, url) ==
    LET taken == {rows[i].slug : i \in 1..Len(rows)}
    IN  {[rows |-> createMirror(rows, slug, originOf(url), url.path), slug |-> slug,
          created |-> TRUE] : slug \in ensureUniqueSlug(slugifyHost(url.hostname), taken)}

\* resolveOrCreateMirrorForUrl: the rows after the call, the mirror and created
resolveOrCreateMirrorForUrl(rows, url) ==
    LET targetOrigin == originOf(url)
        existing == findMirrorByOrigin(rows, targetOrigin)
        taken == {rows[i].slug : i \in 1..Len(rows)}
    IN  IF existing # NoMirror
        THEN {[rows |-> touchMirror(rows, existing.slug, url.path), slug |-> existing.slug,
               created |-> FALSE]}
        ELSE {[rows |-> createMirror(rows, slug, targetOrigin, url.path), slug |-> slug,
               created |-> TRUE] : slug \in ensureUniqueSlug(slugifyHost(url.hostname), taken)}

\* The handler up to the point where assertSafeUrl waits for dns.lookup
ResolveStart(c, rawUrl, budget) ==
    /\ reqs[c].pc \in {"idle", "done"}
    /\ started < budget
    /\ started' = started + 1
    /\ LET q == [Idle EXCEPT !.kind = "resolve", !.current = rawUrl, !.upstreamUrl = rawUrl,
                              !.overlapped = \E d \in Clients \ {c} :
                                                 reqs[d].pc = "resolve-dns"] IN
       reqs' = [reqs EXCEPT ![c] =
           IF serviceDisabled THEN finish(q, errorReply(503, "service_disabled"))
           ELSE IF rawUrl = Unparseable THEN failResolve(q, "invalid_url")
           ELSE IF guardBeforeLookup(rawUrl, allowHttp) # "ok"
           THEN failResolve(q, guardBeforeLookup(rawUrl, allowHttp))
           ELSE [q EXCEPT !.pc = "resolve-dns"]]
    /\ UNCHANGED <<allowHttp, allowlist, allowlistFile, serviceDisabled, mirrors, files, now,
                   adminEvent, lastMiss, cacheOp, fsPending, page, allowlistDisk>>

\* dns.lookup answers; the rest of resolveTargetUrl and of the handler runs
ResolveLookupDone(c) ==
    /\ reqs[c].pc = "resolve-dns"
    /\ \E dns \in dnsLookup(reqs[c].current.hostname) :
        LET q == reqs[c]
            guard == assertSafeUrl(q.current, allowHttp, dns)
        IN  IF guard # "ok"
            THEN /\ reqs' = [reqs EXCEPT ![c] = failResolve(q, guard)]
                 /\ UNCHANGED mirrors
            ELSE IF ~isAllowed(allowlist, q.current)
            THEN /\ reqs' = [reqs EXCEPT ![c] = failResolve(q, "domain_not_allowed")]
                 /\ UNCHANGED mirrors
            ELSE \E res \in resolveOrCreateMirrorForUrl(mirrors, q.current) :
                 /\ mirrors' = res.rows
                 /\ reqs' = [reqs EXCEPT ![c] =
                        finish([q EXCEPT !.events = Append(q.events, Event("resolve", ""))],
                               [NoReply EXCEPT !.status = 200, !.slug = res.slug,
                                               !.created = res.created])]
    /\ UNCHANGED <<allowHttp, allowlist, allowlistFile, serviceDisabled, files, now,
                   adminEvent, lastMiss, started, cacheOp, fsPending, page, allowlistDisk>>

(***************************************************************************)
(* handleMirrorRequest and fetchWithRedirectValidation (mirror/proxy)      *)
(***************************************************************************)
isRedirect(response) ==
    response.status >= 300 /\ response.status < 400 /\ response.location # NoUrl

\* The headers of a reply served from the cache
cacheHitHeaders(cached) ==
    setHeader(setHeader(cached.headers, "x-cache", "HIT"), "x-robots-tag", "noindex, nofollow")

\* Lines 66-70 without the allowlist test of lines 67-70
hopCheck_skipsAllowlist(url, entries, http, dns) == assertSafeUrl(url, http, dns)

\* Lines 66-70 of one hop: the message of the Error thrown, or "ok" and the fetch goes out
hopCheck(url, entries, http, dns) ==
    IF assertSafeUrl(url, http, dns) # "ok" THEN assertSafeUrl(url, http, dns)
    ELSE IF match(entries, url) = NoEntry THEN "domain_not_allowed"
    ELSE "ok"

\* Lines 81-84 for a redirect target: the message of the Error thrown, or "ok"
redirectCheck(url, entries, http, dns) ==
    IF assertSafeUrl(url, http, dns) # "ok" THEN assertSafeUrl(url, http, dns)
    ELSE IF match(entries, url) = NoEntry THEN "domain_not_allowed"
    ELSE "ok"

\* The handler up to the point where the first assertSafeUrl waits for dns.lookup.
\* chain is how many redirects in a row the upstream will answer this request with.
MirrorStart(c, method, slug, path, chain, budget) ==
    /\ reqs[c].pc \in {"idle", "done"}
    /\ started < budget
    /\ started' = started + 1
    /\ LET q0 == [Idle EXCEPT !.kind = "mirror", !.method = method, !.slug = slug,
                              !.chain = chain]
           mirror == findMirrorBySlug(mirrors, slug)
           upstreamUrl == urlOfOrigin(mirror.targetOrigin, path)
           cacheKey == key(method, upstreamUrl)
           cached == get(files, slug, cacheKey, now)
           q1 == [q0 EXCEPT !.upstreamUrl = upstreamUrl, !.current = upstreamUrl,
                            !.removed = method = "GET" /\ cached.files # files,
                            !.targetOrigin = mirror.targetOrigin,
                            !.allowedSeen = isAllowed(allowlist, upstreamUrl),
                            !.expect = IF /\ method = "GET"
                                          /\ lastMiss.status # 0
                                          /\ lastMiss.slug = slug
                                          /\ lastMiss.key = cacheKey
                                          /\ now - lastMiss.at <= ttlSeconds * 1000
                                       THEN lastMiss ELSE NoMiss]
           q2 == [q1 EXCEPT !.events = <<Event("cache-miss", "")>>]
       IN  IF method \notin methodsAllowed
           THEN /\ reqs' = [reqs EXCEPT ![c] = finish(q0, errorReply(405, "method_not_allowed"))]
                /\ UNCHANGED files
           ELSE IF serviceDisabled
           THEN /\ reqs' = [reqs EXCEPT ![c] = finish(q0, errorReply(503, "service_disabled"))]
                /\ UNCHANGED files
           ELSE IF mirror = NoMirror \/ mirror.disabled
           THEN /\ reqs' = [reqs EXCEPT ![c] = finish(q0, errorReply(404, "mirror_not_found"))]
                /\ UNCHANGED files
           ELSE IF method = "GET" /\ cached.result # NoCached
           THEN /\ reqs' = [reqs EXCEPT ![c] =
                       finish([q1 EXCEPT !.events = <<Event("cache-hit", "")>>],
                              [NoReply EXCEPT !.status = cached.result.status,
                                              !.headers = cacheHitHeaders(cached.result),
                                              !.body = cached.result.body])]
                /\ files' = cached.files
           ELSE /\ files' = IF method = "GET" THEN cached.files ELSE files
                /\ reqs' = [reqs EXCEPT ![c] =
                       IF guardBeforeLookup(upstreamUrl, allowHttp) # "ok"
                       THEN failMirror(q2, guardBeforeLookup(upstreamUrl, allowHttp))
                       ELSE [q2 EXCEPT !.pc = "hop-dns"]]
    /\ UNCHANGED <<allowHttp, allowlist, allowlistFile, serviceDisabled, mirrors, now,
                   adminEvent, lastMiss, cacheOp, fsPending, page, allowlistDisk>>

\* dns.lookup answers for the current URL: the guard finishes, the allowlist is
\* asked, and the fetch is issued
HopLookupDone(c) ==
    /\ reqs[c].pc = "hop-dns"
    /\ \E dns \in dnsLookup(reqs[c].current.hostname) :
        LET q == reqs[c]
            check == hopCheck(q.current, allowlist, allowHttp, dns)
        IN  reqs' = [reqs EXCEPT ![c] =
                IF check # "ok" THEN failMirror(q, check)
                ELSE [q EXCEPT !.pc = "fetch",
                               !.fetches = q.fetches + 1,
                               !.connected = <<>>,
                               !.allowedSeen = q.allowedSeen \/ isAllowed(allowlist, q.upstreamUrl),
                               !.lastFetch = [url |-> q.current,
                                              guard |-> assertSafeUrl(q.current, allowHttp, dns),
                                              entry |-> match(allowlist, q.current).id]]]
    /\ UNCHANGED <<allowHttp, allowlist, allowlistFile, serviceDisabled, mirrors, files, now,
                   adminEvent, lastMiss, started, cacheOp, fsPending, page, allowlistDisk>>

\* fetch(current, ...) opens its connection: it looks the host name up itself and
\* connects to one of the addresses of that answer
FetchConnects(c) ==
    /\ reqs[c].pc = "fetch"
    /\ reqs[c].connected = <<>>
    /\ \E dns \in dnsLookup(reqs[c].current.hostname) :
          /\ dns.err = ""
          /\ \E i \in 1..Len(dns.answers) :
                reqs' = [reqs EXCEPT ![c].connected = dns.answers[i]]
    /\ UNCHANGED <<allowHttp, allowlist, allowlistFile, serviceDisabled, mirrors, files, now,
                   adminEvent, lastMiss, started, cacheOp, fsPending, page, allowlistDisk>>

\* The HEAD reply with the upstream's body sent along
headReply_sendsBody(response) ==
    [NoReply EXCEPT !.status = response.status,
                    !.headers = setHeader(copySafeHeaders(NoHeaders, response.headers, FALSE),
                                          "x-cache", "MISS"),
                    !.body = response.body]

\* The reply to a HEAD request
headReply(response) ==
    [NoReply EXCEPT !.status = response.status,
                    !.headers = setHeader(copySafeHeaders(NoHeaders, response.headers, FALSE),
                                          "x-cache", "MISS")]

\* The fetch settles: it rejects with an error, or gives the upstream's response
FetchSettles(c, error, response) ==
    /\ reqs[c].pc = "fetch"
    /\ error = "" => (isRedirect(response) <=> reqs[c].fetches <= reqs[c].chain)
    /\ LET q == reqs[c] IN
       reqs' = [reqs EXCEPT ![c] =
           IF error # "" THEN failMirror(q, error)
           ELSE IF isRedirect(response)
           THEN IF guardBeforeLookup(response.location, allowHttp) # "ok"
                THEN failMirror(q, guardBeforeLookup(response.location, allowHttp))
                ELSE [q EXCEPT !.pc = "next-dns", !.next = response.location]
           ELSE IF q.method = "HEAD"
           THEN finish([q EXCEPT !.upstream = response], headReply(response))
           ELSE [q EXCEPT !.pc = "body", !.response = response, !.upstream = response]]
    /\ UNCHANGED <<allowHttp, allowlist, allowlistFile, serviceDisabled, mirrors, files, now,
                   adminEvent, lastMiss, started, cacheOp, fsPending, page, allowlistDisk>>

\* dns.lookup answers for the redirect target: it is validated, becomes the
\* current URL, and the loop goes on or ends
NextLookupDone(c) ==
    /\ reqs[c].pc = "next-dns"
    /\ \E dns \in dnsLookup(reqs[c].next.hostname) :
        LET q == reqs[c]
            check == redirectCheck(q.next, allowlist, allowHttp, dns)
            moved == [q EXCEPT !.current = q.next, !.next = NoUrl, !.hop = q.hop + 1,
                               !.redirects = q.redirects + 1]
        IN  reqs' = [reqs EXCEPT ![c] =
                IF check # "ok" THEN failMirror(q, check)
                ELSE IF moved.hop < MaxHops THEN [moved EXCEPT !.pc = "hop-dns"]
                ELSE failMirror(moved, "too_many_redirects")]
    /\ UNCHANGED <<allowHttp, allowlist, allowlistFile, serviceDisabled, mirrors, files, now,
                   adminEvent, lastMiss, started, cacheOp, fsPending, page, allowlistDisk>>

\* Line 249 without the test of the status
cacheable_anyStatus(method, status) == method = "GET"

\* method === 'GET' && response.status >= 200 && response.status < 300
cacheable(method, status) == method = "GET" /\ status >= 200 /\ status < 300

\* The reply to a GET served from upstream: lines 243-247
getReply(response, outputBody, rewritten) ==
    LET copied == copySafeHeaders(NoHeaders, response.headers, rewritten)
        marked == setHeader(copied, "x-cache", "MISS")
    IN  [NoReply EXCEPT !.status = response.status,
                        !.headers = IF rewritten
                                    THEN setHeader(marked, "content-length",
                                                   ToString(outputBody.size))
                                    ELSE marked,
                        !.body = outputBody]

\* response.arrayBuffer() settles: the size guard, the rewriting, the reply,
\* the cache write and the touch
BodyArrives(c, error) ==
    /\ reqs[c].pc = "body"
    /\ LET q == reqs[c]
           response == q.response
           contentType == contentTypeOf(response.headers)
           buffer == response.body
           rewritten == isHtml(contentType) \/ isCss(contentType)
           outputBody == IF rewritten THEN rewriteBody(buffer) ELSE buffer
           reply == getReply(response, outputBody, rewritten)
           cacheKey == key(q.method, q.upstreamUrl)
           toCache == [status |-> response.status, headers |-> reply.headers,
                       body |-> outputBody, contentType |-> contentType]
       IN  IF error # ""
           THEN /\ reqs' = [reqs EXCEPT ![c] = failMirror(q, error)]
                /\ UNCHANGED <<files, mirrors, lastMiss>>
           ELSE IF textLike(contentType) /\ isHtml(contentType)
                   /\ buffer.size > MIRROR_MAX_HTML_BYTES
           THEN /\ reqs' = [reqs EXCEPT ![c] = finish(q, errorReply(413, "html_too_large"))]
                /\ UNCHANGED <<files, mirrors, lastMiss>>
           ELSE IF ~textLike(contentType) /\ buffer.size > MIRROR_MAX_BINARY_BYTES
           THEN /\ reqs' = [reqs EXCEPT ![c] = finish(q, errorReply(413, "binary_too_large"))]
                /\ UNCHANGED <<files, mirrors, lastMiss>>
           ELSE /\ reqs' = [reqs EXCEPT ![c] = finish(q, reply)]
                /\ IF cacheable(q.method, response.status)
                   THEN /\ files' \in set(files, q.slug, cacheKey, toCache, now)
                        /\ lastMiss' = IF outputBody.size * 2 <= maxBytes
                                       THEN [slug |-> q.slug, key |-> cacheKey,
                                             status |-> response.status, body |-> outputBody,
                                             at |-> now]
                                       ELSE lastMiss
                   ELSE UNCHANGED <<files, lastMiss>>
                /\ mirrors' = touchMirror(mirrors, q.slug, q.current.path)
    /\ UNCHANGED <<allowHttp, allowlist, allowlistFile, serviceDisabled, now, adminEvent, started,
                   cacheOp, fsPending, page, allowlistDisk>>

(***************************************************************************)
(* The inputs of the model                                                 *)
(***************************************************************************)
Entry(id, host, allowSubdomains, schemes, enabled) ==
    [id |-> id, host |-> host, allowSubdomains |-> allowSubdomains, schemes |-> schemes,
     enabled |-> enabled]

\* What the upstream may answer
HtmlHeaders ==
    ("content-type" :> "text/html") @@ ("set-cookie" :> "sid=1")
    @@ ("content-security-policy" :> "default-src 'self'") @@ ("connection" :> "keep-alive")
    @@ ("transfer-encoding" :> "chunked") @@ ("etag" :> "v1") @@ ("x-robots-tag" :> "all")
    @@ ("x-cache" :> "MISS from upstream")

BinaryHeaders == ("content-type" :> "image/png") @@ ("etag" :> "v1") @@ ("keep-alive" :> "5")

Upstream(status, location, headers, size) ==
    [status |-> status, location |-> location, headers |-> headers,
     body |-> [src |-> "upstream", rewritten |-> FALSE, size |-> size]]

SlugAB == slugifyHost(hAB)

SlugCD == slugifyHost(hCD)

(***************************************************************************)
(* Specification of the proxy: one client's resolves and mirror requests,  *)
(* interleaved with the admin operations at every point where the request  *)
(* waits (DNS lookup, fetch, body)                                         *)
(***************************************************************************)
InitWith(httpChoices) ==
    /\ allowHttp \in httpChoices
    /\ allowlist = <<>>
    /\ allowlistFile = <<>>
    /\ serviceDisabled = FALSE
    /\ mirrors = <<>>
    /\ files = EmptyDir
    /\ now = 0
    /\ reqs = [c \in Clients |-> Idle]
    /\ adminEvent = ""
    /\ lastMiss = NoMiss
    /\ started = 0
    /\ cacheOp = NoOp
    /\ fsPending = <<>>
    /\ page = NoPage
    /\ allowlistDisk = FileAtRest

\* MIRROR_ENABLE_HTTP has its default, false
Init == InitWith({FALSE})

\* How many requests the client sends in a run of Spec
MaxRequests == 4
\* The longest chain of redirects an upstream answers with in a run of Spec
ShortChain == 2
ProxyResolveUrls == {MkUrl("https:", hAB, "/")}

ProxyEntries ==
    {Entry("ab", hAB, FALSE, <<"https">>, TRUE), Entry("cd", hCD, FALSE, <<"https">>, TRUE)}

ProxyFinalResponses ==
    {Upstream(200, NoUrl, HtmlHeaders, 1), Upstream(200, NoUrl, BinaryHeaders, 2),
     Upstream(404, NoUrl, BinaryHeaders, 3)}

ProxyRedirects ==
    {Upstream(301, MkUrl("https:", hCD, "/x"), NoHeaders, 0),
     Upstream(307, MkUrl("https:", ipLoopback, "/"), NoHeaders, 0)}

FetchErrors == {"fetch failed", "The operation was aborted due to timeout"}

Next ==
    \/ \E e \in ProxyEntries : AllowlistUpsert(e)
    \/ \E id \in {"ab", "cd"} : AllowlistRemove(id)
    \/ \E u \in ProxyResolveUrls : ResolveStart("c1", u, MaxRequests)
    \/ ResolveLookupDone("c1")
    \/ \E m \in {"GET", "HEAD", "POST"}, chain \in 0..ShortChain :
          MirrorStart("c1", m, SlugAB, "/", chain, MaxRequests)
    \/ HopLookupDone("c1")
    \/ \E r \in ProxyFinalResponses \cup ProxyRedirects : FetchSettles("c1", "", r)
    \/ \E e \in FetchErrors : FetchSettles("c1", e, NoResponse)
    \/ NextLookupDone("c1")
    \/ BodyArrives("c1", "")

Spec == Init /\ [][Next]_vars

(***************************************************************************)
(* Specification of the redirect loop: one mirror of a.b whose upstream    *)
(* answers each request with a chain of redirects inside a.b, as long as   *)
(* MaxChain, and then with a page                                          *)
(***************************************************************************)
\* The longest chain of redirects an upstream answers with
MaxChain == 6

\* How many requests the client sends in a run of SpecRedirect
MaxRedirectRequests == 3
RedirectResponses ==
    {Upstream(200, NoUrl, HtmlHeaders, 1),
     Upstream(301, MkUrl("https:", hAB, "/x"), NoHeaders, 0),
     Upstream(302, MkUrl("https:", hAB, "/"), BinaryHeaders, 1)}

NextRedirect ==
    \/ AllowlistUpsert(Entry("ab", hAB, FALSE, <<"https">>, TRUE))
    \/ AllowlistRemove("ab")
    \/ ResolveStart("c1", MkUrl("https:", hAB, "/"), MaxRedirectRequests)
    \/ ResolveLookupDone("c1")
    \/ \E m \in {"GET", "HEAD"}, chain \in 0..MaxChain :
          MirrorStart("c1", m, SlugAB, "/", chain, MaxRedirectRequests)
    \/ HopLookupDone("c1")
    \/ \E r \in RedirectResponses : FetchSettles("c1", "", r)
    \/ FetchSettles("c1", "fetch failed", NoResponse)
    \/ NextLookupDone("c1")
    \/ \E e \in {"", "terminated"} : BodyArrives("c1", e)

SpecRedirect == Init /\ [][NextRedirect]_vars

\* C5: a mirror request whose upstream answers with more than 5 redirects in a
\* row, every target passing the guard and the allowlist and every fetch
\* succeeding, is answered 502 too_many_redirects, its last event is a
\* proxy-error with that message, and no body is served.
C5_LongChainRefused ==
    \A c \in Clients :
        LET q == reqs[c] IN
        (/\ q.kind = "mirror"
         /\ q.pc = "done"
         /\ q.fetches > 0
         /\ q.chain > 5
         /\ q.reply.error \in {"", "too_many_redirects"})
        => /\ q.reply.status = 502
           /\ q.reply.error = "too_many_redirects"
           /\ q.events[Len(q.events)] = Event("proxy-error", "too_many_redirects")
           /\ q.reply.body = NoBody
           /\ q.reply.headers = NoHeaders

\* C5's case: the upstream answered six redirects in a row and the request is over
C5_Witness ==
    /\ reqs["c1"].pc = "done"
    /\ reqs["c1"].chain = 6
    /\ reqs["c1"].redirects = 5
    /\ reqs["c1"].reply.error = "too_many_redirects"

\* C6: a mirror request whose upstream answers with at most 5 redirects in a
\* row and then with a response that is no redirect, every target passing the
\* guard and the allowlist and every fetch succeeding, is served: all the
\* redirects were followed, the last fetch went to the last target, and
\* too_many_redirects is not raised.
C6_ShortChainServed ==
    \A c \in Clients :
        LET q == reqs[c] IN
        (/\ q.kind = "mirror"
         /\ q.pc = "done"
         /\ q.fetches > 0
         /\ q.chain <= 5
         /\ q.reply.error \in {"", "too_many_redirects"})
        => /\ q.reply.error = ""
           /\ q.redirects = q.chain
           /\ q.fetches = q.chain + 1

(***************************************************************************)
(* Specification of POST /api/resolve: one client posts URLs of every kind *)
(* the guard tells apart, under either setting of MIRROR_ENABLE_HTTP,      *)
(* while the admin edits the allowlist and the service flag                *)
(***************************************************************************)
InitResolve == InitWith(BOOLEAN)

\* How many resolves the client sends in a run of SpecResolve
MaxResolves == 3
WithCredentials(url) == [url EXCEPT !.cred = TRUE]

\* The hosts of the model that are private, loopback, link-local or metadata hosts
PrivateHosts ==
    {ipLoopback, ipPrivate10, ipPrivate172, ipLinkLocal, ipMetadata, ipMulticast,
     hLocalhost, hSubLocalhost, hMetadataName, hBracketLoopback}

PublicHosts == {hAB, hXAB, ipPublic}

ResolveUrls ==
    {MkUrl("https:", h, "/") : h \in PrivateHosts \cup PublicHosts}
    \cup {MkUrl("http:", h, "/") : h \in {ipLoopback, hAB}}
    \cup {MkUrl("ftp:", hAB, "/"), WithCredentials(MkUrl("https:", ipLoopback, "/")),
          Unparseable}

ResolveEntries ==
    {Entry("ab", hAB, TRUE, <<"https">>, TRUE),
     Entry("lo", ipLoopback, FALSE, <<"https", "http">>, TRUE)}

NextResolve ==
    \/ \E e \in ResolveEntries : AllowlistUpsert(e)
    \/ \E on \in BOOLEAN : AllowlistPatch("ab", [enabled |-> on])
    \/ AllowlistRemove("ab")
    \/ ServiceDisable
    \/ ServiceEnable
    \/ \E u \in ResolveUrls : ResolveStart("c1", u, MaxResolves)
    \/ ResolveLookupDone("c1")

SpecResolve == InitResolve /\ [][NextResolve]_vars

\* C3: with the service enabled, a resolve of a URL of an allowed scheme and
\* without userinfo whose host is a private, loopback, link-local or metadata
\* host fails with ssrf_blocked and status 403, records one resolve-fail event,
\* and no mirror of that origin exists.
C3_PrivateHostBlocked ==
    \A c \in Clients :
        LET q == reqs[c] IN
        (/\ q.kind = "resolve"
         /\ q.pc = "done"
         /\ q.reply.error # "service_disabled"
         /\ q.upstreamUrl # Unparseable
         /\ q.upstreamUrl.hostname \in PrivateHosts
         /\ q.upstreamUrl.protocol = "https:" \/ (q.upstreamUrl.protocol = "http:" /\ allowHttp)
         /\ ~q.upstreamUrl.cred)
        => /\ q.reply.status = 403
           /\ q.reply.error = "ssrf_blocked"
           /\ q.events = <<Event("resolve-fail", "ssrf_blocked")>>
           /\ findMirrorByOrigin(mirrors, originOf(q.upstreamUrl)) = NoMirror

\* C4: a resolve that passes the guard for a URL no enabled allowlist entry
\* matches ends with domain_not_allowed and status 403, and leaves the rows of
\* table mirrors as they were.
C4_NotAllowedLeavesRegistry ==
    [][\A c \in Clients :
          (/\ reqs[c].pc = "resolve-dns"
           /\ reqs'[c].pc = "done"
           /\ match(allowlist, reqs[c].current) = NoEntry)
          => /\ mirrors' = mirrors
             /\ reqs'[c].reply.status \in {400, 403}
             /\ \/ reqs'[c].reply.error \in {"ssrf_blocked", "dns_resolution_failed", "ENOTFOUND"}
                \/ /\ reqs'[c].reply = errorReply(403, "domain_not_allowed")
                   /\ reqs'[c].events = <<Event("resolve-fail", "domain_not_allowed")>>]_vars

\* C4's case: a.b has a mirror from an earlier resolve, its entry is disabled or
\* gone, and the next resolve of a.b was refused
C4_Witness ==
    /\ reqs["c1"].kind = "resolve"
    /\ reqs["c1"].pc = "done"
    /\ reqs["c1"].upstreamUrl = MkUrl("https:", hAB, "/")
    /\ reqs["c1"].reply = errorReply(403, "domain_not_allowed")
    /\ findMirrorBySlug(mirrors, SlugAB) # NoMirror

(***************************************************************************)
(* Specification of repeated GETs: one mirror of a.b, three of its pages,  *)
(* a cache that holds two of them, and a clock                             *)
(***************************************************************************)
\* How many requests the client sends in a run of SpecCacheHit
MaxCacheRequests == 5

\* The latest time the clock reaches in a run of SpecCacheHit
MaxNow == 2000

CachePages == {"/", "/x", "/y"}

CacheResponses == {Upstream(200, NoUrl, BinaryHeaders, 2), Upstream(200, NoUrl, HtmlHeaders, 1)}

NextCacheHit ==
    \/ AllowlistUpsert(Entry("ab", hAB, FALSE, <<"https">>, TRUE))
    \/ ResolveStart("c1", MkUrl("https:", hAB, "/"), MaxCacheRequests)
    \/ ResolveLookupDone("c1")
    \/ \E path \in CachePages : MirrorStart("c1", "GET", SlugAB, path, 0, MaxCacheRequests)
    \/ HopLookupDone("c1")
    \/ \E r \in CacheResponses : FetchSettles("c1", "", r)
    \/ BodyArrives("c1", "")
    \/ CachePurgeBySlug(SlugAB)
    \/ Tick(MaxNow)

SpecCacheHit == Init /\ [][NextCacheHit]_vars

\* C8: a GET that arrives within the TTL of the last GET answered from
\* upstream with a 2xx status and a body of at most maxBytes / 2, for the same
\* slug and upstream URL and with no purge in between, is served from the
\* cache: no fetch, the same status and body, and x-cache: HIT.
C8_SecondGetIsHit ==
    \A c \in Clients :
        LET q == reqs[c] IN
        (q.kind = "mirror" /\ q.expect # NoMiss)
        => /\ q.pc = "done"
           /\ q.fetches = 0
           /\ q.events = <<Event("cache-hit", "")>>
           /\ q.reply.status = q.expect.status
           /\ q.reply.body = q.expect.body
           /\ "x-cache" \in DOMAIN q.reply.headers
           /\ q.reply.headers["x-cache"] = "HIT"

(***************************************************************************)
(* Specification of the file cache alone: get, set and the purges called   *)
(* on a directory that starts empty, and a clock                           *)
(***************************************************************************)
CacheGet(slug, cacheKey) ==
    /\ files' = get(files, slug, cacheKey, now).files
    /\ cacheOp' = [op |-> "get", slug |-> slug, key |-> cacheKey, at |-> now,
                   had |-> metaPath(slug, cacheKey) \in DOMAIN files,
                   age |-> IF metaPath(slug, cacheKey) \in DOMAIN files
                           THEN now - files[metaPath(slug, cacheKey)].cachedAt ELSE 0,
                   size |-> 0,
                   result |-> get(files, slug, cacheKey, now).result,
                   removed |-> [n \in DOMAIN files \ DOMAIN files' |-> files[n]]]
    /\ UNCHANGED <<allowHttp, allowlist, allowlistFile, serviceDisabled, mirrors, now, reqs,
                   adminEvent, lastMiss, started, fsPending, page, allowlistDisk>>

CacheSet(slug, cacheKey, response) ==
    /\ files' \in set(files, slug, cacheKey, response, now)
    /\ cacheOp' = [op |-> "set", slug |-> slug, key |-> cacheKey, at |-> now,
                   had |-> metaPath(slug, cacheKey) \in DOMAIN files,
                   age |-> IF metaPath(slug, cacheKey) \in DOMAIN files
                           THEN now - files[metaPath(slug, cacheKey)].cachedAt ELSE 0,
                   size |-> response.body.size,
                   result |-> NoCached,
                   removed |-> [n \in DOMAIN files \ DOMAIN files' |-> files[n]]]
    /\ UNCHANGED <<allowHttp, allowlist, allowlistFile, serviceDisabled, mirrors, now, reqs,
                   adminEvent, lastMiss, started, fsPending, page, allowlistDisk>>

\* The latest time the clock reaches in a run of SpecFileCache
MaxCacheNow == 2000

\* The largest body given to set in a run of SpecFileCache
MaxBodySize == 3

\* The entries the calls are about, each a slug and a cache key
CacheEntries ==
    {<<SlugAB, key("GET", MkUrl("https:", hAB, "/"))>>,
     <<SlugAB, key("GET", MkUrl("https:", hAB, "/x"))>>,
     <<SlugCD, key("GET", MkUrl("https:", hCD, "/"))>>}

CachedResponses ==
    {[status |-> 200, headers |-> NoHeaders, contentType |-> "image/png",
      body |-> [src |-> "upstream", rewritten |-> FALSE, size |-> n]] : n \in 1..MaxBodySize}

NextFileCache ==
    \/ \E e \in CacheEntries : CacheGet(e[1], e[2])
    \/ \E e \in CacheEntries, r \in CachedResponses : CacheSet(e[1], e[2], r)
    \/ CachePurgeAll
    \/ CachePurgeBySlug(SlugAB)
    \/ Tick(MaxCacheNow)

SpecFileCache == Init /\ [][NextFileCache]_vars

\* C9: FileCache.get never returns an entry older than ttlSeconds; called for
\* an entry that old, it returns a miss and removes the entry's metadata file
\* and body file.
C9_GetNeverReturnsExpired ==
    cacheOp.op = "get" =>
        /\ cacheOp.result # NoCached => cacheOp.at - cacheOp.result.cachedAt <= ttlSeconds * 1000
        /\ (cacheOp.had /\ cacheOp.age > ttlSeconds * 1000) =>
               /\ cacheOp.result = NoCached
               /\ metaPath(cacheOp.slug, cacheOp.key) \notin DOMAIN files
               /\ bodyPath(cacheOp.slug, cacheOp.key) \notin DOMAIN files

\* C9's case: get was called for an entry older than ttlSeconds
C9_Witness ==
    /\ cacheOp.op = "get"
    /\ cacheOp.had
    /\ cacheOp.age > ttlSeconds * 1000
    /\ cacheOp.result = NoCached
    /\ DOMAIN files # {}

\* C10: right after a set that stored its entry (a body of at most
\* maxBytes / 2), the sizes of the live entries of the directory (metadata not
\* older than ttlSeconds, body file present) add up to at most maxBytes.
C10_LiveBytesWithinMax ==
    LET live == {n \in DOMAIN files :
                    /\ n.ext = ".json"
                    /\ now - files[n].cachedAt <= ttlSeconds * 1000
                    /\ files[n].bodyFile \in DOMAIN files}
        RECURSIVE sum(_)
        sum(S) == IF S = {} THEN 0
                  ELSE LET n == CHOOSE x \in S : TRUE IN files[n].size + sum(S \ {n})
    IN  (cacheOp.op = "set" /\ cacheOp.size * 2 <= maxBytes) => sum(live) <= maxBytes

\* C10's case: a set stored a body of maxBytes / 2 next to an entry of the same
\* size, so that the directory is full afterwards
C10_Witness ==
    /\ cacheOp.op = "set"
    /\ cacheOp.size = 2
    /\ cacheOp.at = now
    /\ metaPath(cacheOp.slug, cacheOp.key) \in DOMAIN files
    /\ Cardinality(DOMAIN files) = 4
    /\ \A n \in DOMAIN files : n.ext = ".json" => files[n].size = 2 /\ files[n].cachedAt > 0

(***************************************************************************)
(* Properties of the proxy, checked under Spec                             *)
(***************************************************************************)
\* C1: every fetch fetchWithRedirectValidation has issued, for the initial URL
\* or for a redirect target, went out for a URL for which assertSafeUrl had
\* succeeded and allowlist.match had returned an entry; while the fetch is in
\* flight that URL is the current one.
C1_FetchOnlyAfterGuardAndMatch ==
    \A c \in Clients :
        reqs[c].fetches > 0 =>
            /\ reqs[c].lastFetch.guard = "ok"
            /\ reqs[c].lastFetch.entry # NoEntry.id
            /\ reqs[c].pc = "fetch" => reqs[c].lastFetch.url = reqs[c].current

\* C1's case: the fetch for a validated redirect target is in flight
C1_Witness ==
    /\ reqs["c1"].pc = "fetch"
    /\ reqs["c1"].redirects = 1
    /\ reqs["c1"].fetches = 2
    /\ reqs["c1"].current = MkUrl("https:", hCD, "/x")

\* C2: a mirror request for an enabled mirror whose upstream URL passes the
\* guard and was matched by no enabled allowlist entry, neither when the
\* request arrived nor when the allowlist was consulted, is answered 403
\* domain_not_allowed and no upstream fetch is issued for it.
C2_BlockedMirrorRefused ==
    \A c \in Clients :
        LET q == reqs[c] IN
        (/\ q.kind = "mirror"
         /\ q.pc = "done"
         /\ q.upstreamUrl # NoUrl
         /\ ~q.allowedSeen
         /\ guardBeforeLookup(q.upstreamUrl, allowHttp) = "ok"
         /\ q.reply.error \notin {"ssrf_blocked", "dns_resolution_failed", "ENOTFOUND",
                                  "invalid_ip", "empty_hostname"})
        => /\ q.reply.status = 403
           /\ q.reply.error = "domain_not_allowed"
           /\ q.fetches = 0

\* C7: every proxied response of handleMirrorRequest (an upstream response
\* relayed to a GET or a HEAD, or a cache hit) carries none of connection,
\* transfer-encoding, set-cookie and content-security-policy, and carries
\* x-robots-tag: noindex, nofollow.
C7_ProxiedHeadersSafe ==
    \A c \in Clients :
        LET q == reqs[c] IN
        (q.kind = "mirror" /\ q.pc = "done" /\ q.reply.status # 0 /\ q.reply.error = "")
        => /\ (DOMAIN q.reply.headers)
                   \cap {"connection", "transfer-encoding", "set-cookie",
                         "content-security-policy"} = {}
           /\ "x-robots-tag" \in DOMAIN q.reply.headers
           /\ q.reply.headers["x-robots-tag"] = "noindex, nofollow"

\* C7's case: a cache hit for a page whose upstream response carried all four
\* headers and an x-robots-tag of its own
C7_Witness ==
    /\ reqs["c1"].pc = "done"
    /\ reqs["c1"].events = <<Event("cache-hit", "")>>
    /\ reqs["c1"].reply.body.rewritten
    /\ reqs["c1"].reply.headers["x-cache"] = "HIT"

(***************************************************************************)
(* The FileCache call by call of the file system: each call of get, set,   *)
(* purgeAll and purgeBySlug is the sequence of fs.writeFileSync and        *)
(* fs.rmSync calls it makes, and the process may stop between two of them  *)
(* (the directory outlives the process)                                    *)
(***************************************************************************)
rmStep(name) == [call |-> "rmSync", name |-> name, content |-> NoCached]

writeStep(name, content) == [call |-> "writeFileSync", name |-> name, content |-> content]

\* The directory after one file-system call
applyStep(dir, step) ==
    IF step.call = "rmSync" THEN rmSync(dir, step.name)
    ELSE writeFileSync(dir, step.name, step.content)

RECURSIVE applySteps(_, _)
applySteps(dir, steps) ==
    IF steps = <<>> THEN dir ELSE applySteps(applyStep(dir, Head(steps)), Tail(steps))

\* removePair: the metadata file first, then the body file
removePairSteps(metaName, bodyName) == <<rmStep(metaName), rmStep(bodyName)>>

\* FileCache.get: the file-system calls that change the directory
getSteps(dir, slug, cacheKey, t) ==
    LET metaFile == metaPath(slug, cacheKey) IN
    IF metaFile \notin DOMAIN dir THEN <<>>
    ELSE LET meta == dir[metaFile] IN
         IF expired(meta, t) THEN removePairSteps(metaFile, meta.bodyFile)
         ELSE IF meta.bodyFile \notin DOMAIN dir THEN <<rmStep(metaFile)>>
         ELSE <<>>

\* prune, first loop: the calls it makes and the entries it collects; dir
\* is the directory as the loop has left it so far
RECURSIVE pruneWalkSteps(_, _, _, _, _)
pruneWalkSteps(listing, dir, metas, steps, t) ==
    IF listing = <<>> THEN [steps |-> steps, metas |-> metas]
    ELSE LET file == Head(listing) IN
         IF file.ext # ".json" \/ file \notin DOMAIN dir
         THEN pruneWalkSteps(Tail(listing), dir, metas, steps, t)
         ELSE LET meta == dir[file] IN
              IF meta.bodyFile \notin DOMAIN dir
              THEN pruneWalkSteps(Tail(listing), rmSync(dir, file), metas,
                                  Append(steps, rmStep(file)), t)
              ELSE IF expired(meta, t)
              THEN pruneWalkSteps(Tail(listing), removePair(dir, file, meta.bodyFile), metas,
                                  steps \o removePairSteps(file, meta.bodyFile), t)
              ELSE pruneWalkSteps(Tail(listing), dir,
                                  Append(metas, [metaPath |-> file, bodyPath |-> meta.bodyFile,
                                                 cachedAt |-> meta.cachedAt, size |-> meta.size]),
                                  steps, t)

\* prune, second loop
RECURSIVE evictSteps(_, _)
evictSteps(metas, total) ==
    IF metas = <<>> \/ total <= maxBytes THEN <<>>
    ELSE removePairSteps(Head(metas).metaPath, Head(metas).bodyPath)
         \o evictSteps(Tail(metas), total - Head(metas).size)

pruneSteps(dir, listing, t) ==
    LET walked == pruneWalkSteps(listing, dir, <<>>, <<>>, t)
        total == sumSizes(walked.metas)
    IN  IF total <= maxBytes THEN walked.steps
        ELSE walked.steps \o evictSteps(sortByCachedAt(walked.metas, <<>>), total)

\* FileCache.set: the body file, the metadata file, then prune
setSteps(dir, slug, cacheKey, response, listing, t) ==
    IF response.body.size * 2 > maxBytes THEN <<>>
    ELSE LET written == setWrites(dir, slug, cacheKey, response, t)
         IN  <<writeStep(bodyPath(slug, cacheKey), response.body),
               writeStep(metaPath(slug, cacheKey), written[metaPath(slug, cacheKey)])>>
             \o pruneSteps(written, listing, t)

\* purgeAll: one rmSync per name of the listing
purgeAllSteps(listing) == [i \in 1..Len(listing) |-> rmStep(listing[i])]

\* purgeBySlug: one rmSync per name of the listing that starts with the prefix
purgeBySlugSteps(listing, slug) ==
    LET prefixed == SelectSeq(listing, LAMBDA n : StartsWith(n.stem, safeSlug(slug) \o <<"_">>))
    IN  purgeAllSteps(prefixed)

\* A call starts only when no other call is running: the FileCache is synchronous
GetBegins(slug, cacheKey) ==
    /\ fsPending = <<>>
    /\ getSteps(files, slug, cacheKey, now) # <<>>
    /\ fsPending' = getSteps(files, slug, cacheKey, now)
    /\ UNCHANGED <<allowHttp, allowlist, allowlistFile, serviceDisabled, mirrors, files, now, reqs,
                   adminEvent, lastMiss, started, cacheOp, page, allowlistDisk>>

SetBegins(slug, cacheKey, response) ==
    /\ fsPending = <<>>
    /\ response.body.size * 2 <= maxBytes
    /\ \E l \in listings({n \in DOMAIN files \cup {metaPath(slug, cacheKey)} : n.ext = ".json"}) :
          fsPending' = setSteps(files, slug, cacheKey, response, l, now)
    /\ UNCHANGED <<allowHttp, allowlist, allowlistFile, serviceDisabled, mirrors, files, now, reqs,
                   adminEvent, lastMiss, started, cacheOp, page, allowlistDisk>>

PurgeAllBegins ==
    /\ fsPending = <<>>
    /\ DOMAIN files # {}
    /\ \E l \in listings(DOMAIN files) : fsPending' = purgeAllSteps(l)
    /\ UNCHANGED <<allowHttp, allowlist, allowlistFile, serviceDisabled, mirrors, files, now, reqs,
                   adminEvent, lastMiss, started, cacheOp, page, allowlistDisk>>

PurgeBySlugBegins(slug) ==
    /\ fsPending = <<>>
    /\ \E l \in listings(DOMAIN files) :
          /\ purgeBySlugSteps(l, slug) # <<>>
          /\ fsPending' = purgeBySlugSteps(l, slug)
    /\ UNCHANGED <<allowHttp, allowlist, allowlistFile, serviceDisabled, mirrors, files, now, reqs,
                   adminEvent, lastMiss, started, cacheOp, page, allowlistDisk>>

\* The call in progress makes its next file-system call
FsStep ==
    /\ fsPending # <<>>
    /\ files' = applyStep(files, Head(fsPending))
    /\ fsPending' = Tail(fsPending)
    /\ UNCHANGED <<allowHttp, allowlist, allowlistFile, serviceDisabled, mirrors, now, reqs,
                   adminEvent, lastMiss, started, cacheOp, page, allowlistDisk>>

\* The process stops between two file-system calls and is started again: the
\* rest of the call is never made
ProcessStop ==
    /\ fsPending # <<>>
    /\ fsPending' = <<>>
    /\ UNCHANGED <<allowHttp, allowlist, allowlistFile, serviceDisabled, mirrors, files, now, reqs,
                   adminEvent, lastMiss, started, cacheOp, page, allowlistDisk>>

\* Between two calls of the FileCache the clock may advance
TickBetweenCalls(limit) ==
    /\ fsPending = <<>>
    /\ Tick(limit)

\* The latest time the clock reaches in a run of SpecFileSteps
MaxStepsNow == 2000

\* The entries the calls of SpecFileSteps are about
StepEntries ==
    {<<SlugAB, key("GET", MkUrl("https:", hAB, "/"))>>,
     <<SlugAB, key("GET", MkUrl("https:", hAB, "/x"))>>,
     <<SlugCD, key("GET", MkUrl("https:", hCD, "/"))>>}

StepResponses ==
    {[status |-> 200, headers |-> NoHeaders, contentType |-> "image/png",
      body |-> [src |-> "upstream", rewritten |-> FALSE, size |-> 2]]}

NextFileSteps ==
    \/ \E e \in StepEntries : GetBegins(e[1], e[2])
    \/ \E e \in StepEntries, r \in StepResponses : SetBegins(e[1], e[2], r)
    \/ PurgeAllBegins
    \/ PurgeBySlugBegins(SlugAB)
    \/ FsStep
    \/ ProcessStop
    \/ TickBetweenCalls(MaxStepsNow)

SpecFileSteps == Init /\ [][NextFileSteps]_vars

\* C11: whenever no call of the FileCache is running (a call has returned, or
\* the process stopped in the middle of one), each entry's metadata file and
\* body file are both in the directory or both absent.
C11_MetaAndBodyTogether ==
    fsPending = <<>> =>
        \A e \in StepEntries :
            metaPath(e[1], e[2]) \in DOMAIN files <=> bodyPath(e[1], e[2]) \in DOMAIN files

(***************************************************************************)
(* Specification of the mirror registry: resolves of URLs of two origins   *)
(* that share a host, and setMirrorDisabled called on the records          *)
(***************************************************************************)
\* How many resolves the client sends in a run of SpecRegistry
MaxRegistryResolves == 4

WithPort(url, port) == [url EXCEPT !.port = port]

RegistryUrls ==
    {MkUrl("https:", hAB, "/"), MkUrl("https:", hAB, "/x"),
     WithPort(MkUrl("https:", hAB, "/"), "8443")}

\* The slugs resolveOrCreateMirrorForUrl allocates for host a.b
RegistrySlugs == {SlugAB, SlugAB \o <<"-", "2">>, SlugAB \o <<"-", "3">>}

NextRegistry ==
    \/ AllowlistUpsert(Entry("ab", hAB, FALSE, <<"https">>, TRUE))
    \/ \E u \in RegistryUrls : ResolveStart("c1", u, MaxRegistryResolves)
    \/ ResolveLookupDone("c1")
    \/ \E slug \in RegistrySlugs, disabled \in BOOLEAN : MirrorSetDisabled(slug, disabled)

SpecRegistry == Init /\ [][NextRegistry]_vars

\* C12: no two rows of table mirrors with disabled = 0 have the same
\* target_origin.
C12_EnabledOriginsUnique ==
    \A i, j \in 1..Len(mirrors) :
        (i # j /\ ~mirrors[i].disabled /\ ~mirrors[j].disabled)
        => mirrors[i].targetOrigin # mirrors[j].targetOrigin

\* C15: once a resolve of a URL has succeeded, table mirrors has a row with
\* the returned slug whose target_origin is the URL's scheme, host and port,
\* and no other row has that slug.
C15_ResolvedMirrorExists ==
    \A c \in Clients :
        LET q == reqs[c] IN
        (q.kind = "resolve" /\ q.pc = "done" /\ q.reply.status = 200)
        => /\ \E i \in 1..Len(mirrors) :
                 /\ mirrors[i].slug = q.reply.slug
                 /\ mirrors[i].targetOrigin =
                        <<q.upstreamUrl.protocol, q.upstreamUrl.hostname, q.upstreamUrl.port>>
           /\ Cardinality({i \in 1..Len(mirrors) : mirrors[i].slug = q.reply.slug}) = 1

\* C15's case: the resolve of https://a.b:8443/ succeeded after https://a.b had
\* taken the slug a-b
C15_Witness ==
    /\ reqs["c1"].kind = "resolve"
    /\ reqs["c1"].pc = "done"
    /\ reqs["c1"].reply.status = 200
    /\ reqs["c1"].reply.created
    /\ reqs["c1"].upstreamUrl.port = "8443"
    /\ reqs["c1"].reply.slug = SlugAB \o <<"-", "2">>
    /\ Len(mirrors) = 2

(***************************************************************************)
(* Specification of concurrent resolves: two clients post URLs of the      *)
(* origins of host a.b, and each call waits for its DNS lookup while the   *)
(* other may start, wait or finish                                         *)
(***************************************************************************)
\* How many resolves the two clients send in a run of SpecResolveRace
MaxRaceResolves == 4

RaceUrls ==
    {MkUrl("https:", hAB, "/"), MkUrl("https:", hAB, "/x"),
     WithPort(MkUrl("https:", hAB, "/"), "8443")}

NextResolveRace ==
    \/ AllowlistUpsert(Entry("ab", hAB, FALSE, <<"https">>, TRUE))
    \/ \E c \in Clients, u \in RaceUrls : ResolveStart(c, u, MaxRaceResolves)
    \/ \E c \in Clients : ResolveLookupDone(c)

SpecResolveRace == Init /\ [][NextResolveRace]_vars

\* The request is a resolve that succeeded
resolved(q) == q.kind = "resolve" /\ q.pc = "done" /\ q.reply.status = 200

rowsOfOrigin(url) ==
    {i \in 1..Len(mirrors) :
        mirrors[i].targetOrigin = <<url.protocol, url.hostname, url.port>>}

\* C13: however the resolves of the two clients interleave, table mirrors has
\* at most one row per target_origin; two resolves of URLs of one origin that
\* both succeeded returned the same slug and did not both report created, and
\* when they were the only two calls exactly one of them reported created.
C13_OneRecordPerOrigin ==
    /\ \A i, j \in 1..Len(mirrors) :
          i # j => mirrors[i].targetOrigin # mirrors[j].targetOrigin
    /\ \A c, d \in Clients :
          (/\ c # d
           /\ resolved(reqs[c])
           /\ resolved(reqs[d])
           /\ originOf(reqs[c].upstreamUrl) = originOf(reqs[d].upstreamUrl))
          => /\ reqs[c].reply.slug = reqs[d].reply.slug
             /\ ~(reqs[c].reply.created /\ reqs[d].reply.created)
             /\ Cardinality(rowsOfOrigin(reqs[c].upstreamUrl)) = 1
             /\ started = 2 => (reqs[c].reply.created \/ reqs[d].reply.created)

\* C13's case: the only two resolves, of two URLs of https://a.b, were waiting
\* for their DNS lookups at the same time and both succeeded
C13_Witness ==
    /\ started = 2
    /\ resolved(reqs["c1"])
    /\ resolved(reqs["c2"])
    /\ reqs["c1"].upstreamUrl = MkUrl("https:", hAB, "/")
    /\ reqs["c2"].upstreamUrl = MkUrl("https:", hAB, "/x")
    /\ reqs["c2"].overlapped
    /\ reqs["c1"].reply.created
    /\ ~reqs["c2"].reply.created
    /\ Len(mirrors) = 1

\* C14: a resolve that succeeds for a URL whose origin has no enabled row
\* inserts one row and reports created = true; a resolve that succeeds for a
\* URL another client's last resolve succeeded for returns the slug that one
\* returned, reports created = false and inserts no row.
C14_SecondResolveSameSlug ==
    [][\A c \in Clients :
          (reqs[c].pc = "resolve-dns" /\ resolved(reqs'[c]))
          => /\ findMirrorByOrigin(mirrors, originOf(reqs[c].upstreamUrl)) = NoMirror
                => (reqs'[c].reply.created /\ Len(mirrors') = Len(mirrors) + 1)
             /\ \A d \in Clients \ {c} :
                   (resolved(reqs[d]) /\ reqs[d].upstreamUrl = reqs[c].upstreamUrl)
                   => /\ reqs'[c].reply.slug = reqs[d].reply.slug
                      /\ ~reqs'[c].reply.created
                      /\ Len(mirrors') = Len(mirrors)]_vars

\* C14's case: https://a.b:8443/ was resolved twice, one call after the other,
\* after https://a.b/ had taken the slug a-b
C14_Witness ==
    /\ started = 3
    /\ resolved(reqs["c1"])
    /\ resolved(reqs["c2"])
    /\ reqs["c1"].upstreamUrl = WithPort(MkUrl("https:", hAB, "/"), "8443")
    /\ reqs["c2"].upstreamUrl = reqs["c1"].upstreamUrl
    /\ ~reqs["c1"].overlapped
    /\ ~reqs["c2"].overlapped
    /\ reqs["c1"].reply.created
    /\ ~reqs["c2"].reply.created
    /\ reqs["c2"].reply.slug = SlugAB \o <<"-", "2">>
    /\ Len(mirrors) = 2

(***************************************************************************)
(* Specification of handleMirrorRequest: GET, HEAD and POST requests for   *)
(* two pages of mirror a-b and for a slug without a mirror, an upstream    *)
(* that answers with pages, errors and redirects, and the service flag,    *)
(* the mirror's disabled flag and the clock changing wherever the handler  *)
(* waits                                                                   *)
(***************************************************************************)
\* How many requests the client sends in a run of SpecHandler
MaxHandlerRequests == 3

\* The latest time the clock reaches in a run of SpecHandler
MaxHandlerNow == 2000

\* The longest chain of redirects an upstream answers with in a run of SpecHandler
HandlerChain == 1

HandlerPages == {"/", "/x"}

HandlerResponses ==
    {Upstream(200, NoUrl, HtmlHeaders, 1), Upstream(200, NoUrl, HtmlHeaders, 3),
     Upstream(200, NoUrl, BinaryHeaders, 3), Upstream(404, NoUrl, BinaryHeaders, 1),
     Upstream(301, MkUrl("https:", hAB, "/x"), NoHeaders, 0),
     Upstream(302, MkUrl("https:", hCD, "/"), NoHeaders, 0),
     Upstream(307, MkUrl("https:", ipLoopback, "/"), NoHeaders, 0)}

NextHandler ==
    \/ AllowlistUpsert(Entry("ab", hAB, FALSE, <<"https">>, TRUE))
    \/ ServiceDisable
    \/ MirrorSetDisabled(SlugAB, TRUE)
    \/ Tick(MaxHandlerNow)
    \/ ResolveStart("c1", MkUrl("https:", hAB, "/"), MaxHandlerRequests)
    \/ ResolveLookupDone("c1")
    \/ \E m \in {"GET", "HEAD", "POST"}, slug \in {SlugAB, SlugCD}, path \in HandlerPages,
          chain \in 0..HandlerChain :
          MirrorStart("c1", m, slug, path, chain, MaxHandlerRequests)
    \/ HopLookupDone("c1")
    \/ \E r \in HandlerResponses : FetchSettles("c1", "", r)
    \/ \E e \in FetchErrors : FetchSettles("c1", e, NoResponse)
    \/ NextLookupDone("c1")
    \/ \E e \in {"", "terminated"} : BodyArrives("c1", e)

SpecHandler == Init /\ [][NextHandler]_vars

\* The step is the start of a mirror request of client c
mirrorStarts(c) ==
    /\ reqs[c].pc \in {"idle", "done"}
    /\ started' = started + 1
    /\ reqs'[c].kind = "mirror"

\* The request was answered at once with this error, and the step left the
\* cache directory, table mirrors and table events alone and fetched nothing
refusedAtOnce(c, status, error) ==
    /\ reqs'[c].pc = "done"
    /\ reqs'[c].reply = errorReply(status, error)
    /\ reqs'[c].events = <<>>
    /\ reqs'[c].fetches = 0
    /\ files' = files
    /\ mirrors' = mirrors

\* C16: a mirror request with a method other than GET and HEAD is answered
\* 405 method_not_allowed; otherwise, with the service disabled, 503
\* service_disabled; otherwise, with no mirror of the slug or a disabled one,
\* 404 mirror_not_found; each time without a cache read, a fetch, an event or
\* a write to table mirrors.
C16_PreconditionsInOrder ==
    [][\A c \in Clients :
          mirrorStarts(c) =>
             LET mirror == findMirrorBySlug(mirrors, reqs'[c].slug) IN
             /\ reqs'[c].method \notin {"GET", "HEAD"}
                => refusedAtOnce(c, 405, "method_not_allowed")
             /\ (reqs'[c].method \in {"GET", "HEAD"} /\ serviceDisabled)
                => refusedAtOnce(c, 503, "service_disabled")
             /\ (/\ reqs'[c].method \in {"GET", "HEAD"}
                 /\ ~serviceDisabled
                 /\ (mirror = NoMirror \/ mirror.disabled))
                => refusedAtOnce(c, 404, "mirror_not_found")]_vars

\* C16's case: a GET for a disabled mirror was answered 503 while the service
\* was disabled, and the expired entry a cache read would have removed is
\* still in the directory
C16_Witness ==
    /\ reqs["c1"].kind = "mirror"
    /\ reqs["c1"].method = "GET"
    /\ reqs["c1"].slug = SlugAB
    /\ reqs["c1"].reply = errorReply(503, "service_disabled")
    /\ serviceDisabled
    /\ findMirrorBySlug(mirrors, SlugAB) # NoMirror
    /\ findMirrorBySlug(mirrors, SlugAB).disabled
    /\ \E n \in DOMAIN files : n.ext = ".json" /\ expired(files[n], now)

\* The names of the upstream's headers that copySafeHeaders lets through
\* when the body is not rewritten
passedHeaders(headers) ==
    (DOMAIN headers) \ (hopByHop \cup {"content-security-policy", "set-cookie"})

\* C17: no step of a HEAD mirror request changes the cache directory, and a
\* HEAD request that is answered with a response has fetched it from the
\* upstream: the reply has the upstream's status, the upstream's headers that
\* pass the filter, x-robots-tag, x-cache: MISS and no body.
C17_HeadBypassesCache ==
    [][\A c \in Clients :
          (reqs'[c] # reqs[c] /\ reqs'[c].kind = "mirror" /\ reqs'[c].method = "HEAD")
          => /\ files' = files
             /\ (reqs'[c].pc = "done" /\ reqs'[c].reply.error = "")
                => LET q == reqs'[c] IN
                   /\ q.fetches >= 1
                   /\ q.events = <<Event("cache-miss", "")>>
                   /\ q.reply.status = q.upstream.status
                   /\ q.reply.body = NoBody
                   /\ DOMAIN q.reply.headers =
                          passedHeaders(q.upstream.headers) \cup {"x-cache", "x-robots-tag"}
                   /\ q.reply.headers["x-cache"] = "MISS"
                   /\ q.reply.headers["x-robots-tag"] = "noindex, nofollow"
                   /\ \A n \in passedHeaders(q.upstream.headers) \ {"x-cache", "x-robots-tag"} :
                          q.reply.headers[n] = q.upstream.headers[n]]_vars

\* C17's case: a HEAD for a page whose GET entry is in the cache and not
\* expired was answered 200 from the upstream
C17_Witness ==
    /\ reqs["c1"].kind = "mirror"
    /\ reqs["c1"].method = "HEAD"
    /\ reqs["c1"].pc = "done"
    /\ reqs["c1"].reply.status = 200
    /\ reqs["c1"].fetches = 1
    /\ metaPath(SlugAB, key("GET", reqs["c1"].upstreamUrl)) \in DOMAIN files
    /\ ~expired(files[metaPath(SlugAB, key("GET", reqs["c1"].upstreamUrl))], now)
    /\ metaPath(SlugAB, key("HEAD", reqs["c1"].upstreamUrl)) \notin DOMAIN files

\* The mirror request ended with an error reply of the proxy
endedWithError(q) ==
    /\ q.kind = "mirror"
    /\ q.pc = "done"
    /\ q.reply.status \in {400, 403, 413, 502}
    /\ q.reply.error # ""

\* No file of the directory after is new or has other content than before
noFileWritten(before, after) ==
    /\ DOMAIN after \subseteq DOMAIN before
    /\ \A n \in DOMAIN after : after[n] = before[n]

\* C18 as stated: a mirror request that ended with an error has not changed
\* the cache directory, its cache lookup included.
C18_ErrorLeavesCacheUnchanged ==
    \A c \in Clients : endedWithError(reqs[c]) => ~reqs[c].removed

\* C18, amended: the only step of a mirror request that writes a file is the
\* one that sends the reply of a GET served from upstream, so a request that
\* ends with an error writes no cache entry; the one change a request makes
\* otherwise is at its cache lookup, where a GET removes the two files of the
\* expired entry of its own key.
C18_ErrorWritesNoEntry ==
    [][\A c \in Clients :
          (/\ reqs'[c] # reqs[c]
           /\ reqs'[c].kind = "mirror"
           /\ ~(reqs[c].pc = "body" /\ reqs'[c].pc = "done" /\ reqs'[c].reply.error = ""))
          => /\ noFileWritten(files, files')
             /\ files' # files
                => LET q == reqs'[c]
                       metaFile == metaPath(q.slug, key("GET", q.upstreamUrl))
                   IN  /\ mirrorStarts(c)
                       /\ q.method = "GET"
                       /\ q.removed
                       /\ metaFile \in DOMAIN files
                       /\ now - files[metaFile].cachedAt > ttlSeconds * 1000
                       /\ (DOMAIN files) \ (DOMAIN files') \subseteq
                              {metaFile, bodyPath(q.slug, key("GET", q.upstreamUrl))}]_vars

\* C18's case: the cache lookup of a GET removed the expired entry, the
\* upstream's page was larger than MIRROR_MAX_HTML_BYTES, and the directory
\* is empty after the 413
C18_Witness ==
    /\ endedWithError(reqs["c1"])
    /\ reqs["c1"].reply = errorReply(413, "html_too_large")
    /\ reqs["c1"].removed
    /\ reqs["c1"].fetches = 1
    /\ files = EmptyDir

\* C19: every file of the cache directory belongs to a key of method GET, and
\* every metadata file records a status from 200 to 299.
C19_OnlyGet2xxCached ==
    \A n \in DOMAIN files :
        /\ n.key[1] = "GET"
        /\ n.ext = ".json" => /\ files[n].status >= 200
                              /\ files[n].status < 300
                              /\ files[n].cacheKey[1] = "GET"

\* C19's case: with the entry of one page in the cache, a GET for the other
\* page was answered 404 from the upstream and a HEAD or GET left no entry
\* for it
C19_Witness ==
    /\ reqs["c1"].kind = "mirror"
    /\ reqs["c1"].method = "GET"
    /\ reqs["c1"].pc = "done"
    /\ reqs["c1"].reply.status = 404
    /\ reqs["c1"].reply.error = ""
    /\ reqs["c1"].fetches = 1
    /\ metaPath(SlugAB, key("GET", reqs["c1"].upstreamUrl)) \notin DOMAIN files
    /\ Cardinality(DOMAIN files) = 2

\* C20 for requests without redirects, where finalUrl is the upstream URL: once
\* a mirror request has been answered with a response, from the upstream or
\* from the cache, last_path of the mirror's row is the path and query of that URL.
C20_SuccessUpdatesLastPath ==
    \A c \in Clients :
        LET q == reqs[c] IN
        (/\ q.kind = "mirror"
         /\ q.pc = "done"
         /\ q.reply.error = ""
         /\ q.reply.status # 0
         /\ q.redirects = 0)
        => findMirrorBySlug(mirrors, q.slug).lastPath = q.upstreamUrl.path

(***************************************************************************)
(* Specification of the error replies: one client's resolves and mirror    *)
(* requests with URLs and redirect targets of every kind the guard and the *)
(* allowlist refuse, and fetches that fail                                 *)
(***************************************************************************)
\* How many requests the client sends in a run of SpecErrors
MaxErrorRequests == 3
\* The longest chain of redirects an upstream answers with in a run of SpecErrors
ErrorChain == 6

ErrorResolveUrls ==
    {MkUrl("https:", hAB, "/"), MkUrl("https:", hCD, "/"), MkUrl("http:", hAB, "/"),
     MkUrl("https:", ipLoopback, "/"), WithCredentials(MkUrl("https:", hAB, "/")),
     Unparseable}

ErrorResponses ==
    {Upstream(200, NoUrl, BinaryHeaders, 1),
     Upstream(302, MkUrl("https:", hAB, "/x"), NoHeaders, 0),
     Upstream(302, MkUrl("http:", hAB, "/x"), NoHeaders, 0),
     Upstream(302, WithCredentials(MkUrl("https:", hAB, "/x")), NoHeaders, 0),
     Upstream(302, MkUrl("https:", hCD, "/x"), NoHeaders, 0)}

NextErrors ==
    \/ AllowlistUpsert(Entry("ab", hAB, FALSE, <<"https">>, TRUE))
    \/ \E u \in ErrorResolveUrls : ResolveStart("c1", u, MaxErrorRequests)
    \/ ResolveLookupDone("c1")
    \/ \E chain \in {0, 1, ErrorChain} :
          MirrorStart("c1", "GET", SlugAB, "/", chain, MaxErrorRequests)
    \/ HopLookupDone("c1")
    \/ \E r \in ErrorResponses : FetchSettles("c1", "", r)
    \/ \E e \in FetchErrors : FetchSettles("c1", e, NoResponse)
    \/ NextLookupDone("c1")
    \/ \E e \in {"", "terminated"} : BodyArrives("c1", e)

SpecErrors == Init /\ [][NextErrors]_vars

\* The status the taxonomy gives an error identifier; every identifier it does
\* not name is a proxy failure
taxonomyStatus(error) ==
    IF error \in {"invalid_url", "invalid_scheme", "credentials_not_allowed"} THEN 400
    ELSE IF error \in {"domain_not_allowed", "ssrf_blocked"} THEN 403
    ELSE IF error = "method_not_allowed" THEN 405
    ELSE IF error = "mirror_not_found" THEN 404
    ELSE IF error \in {"html_too_large", "binary_too_large"} THEN 413
    ELSE IF error = "service_disabled" THEN 503
    ELSE 502

\* C21: every error reply of a resolve or of a mirror request carries the status
\* the taxonomy gives its identifier: 400 for invalid_url, invalid_scheme and
\* credentials_not_allowed, 403 for domain_not_allowed and ssrf_blocked, 502 for
\* too_many_redirects, dns_resolution_failed, a timeout and every other failure
C21_ErrorsHaveTaxonomyStatus ==
    \A c \in Clients :
        (reqs[c].pc = "done" /\ reqs[c].reply.error # "")
            => reqs[c].reply.status = taxonomyStatus(reqs[c].reply.error)


(***************************************************************************)
(* HTML rewriter (mirror/rewrite-html).  Attribute values and URLs are     *)
(* sequences of characters, parsed and resolved as new URL(value, base)    *)
(* does for the references of the model: absolute, scheme-relative,        *)
(* path-absolute, path-relative, query-only, fragment-only and opaque      *)
(* ones.  Dot segments, backslashes and characters the parser would        *)
(* percent-encode do not occur in them.  A parsed URL is the record        *)
(* [ok, protocol, host, pathname, search]; host carries a port that is not *)
(* the scheme's default.  A document is the DOM cheerio loads: how many    *)
(* <base> elements it has, how many <meta name="robots"> its head has, and *)
(* its other elements, each with one attribute.                            *)
(***************************************************************************)
sHttps == <<"h", "t", "t", "p", "s", ":">>
sHttp == <<"h", "t", "t", "p", ":">>
sSlashes == <<"/", "/">>
SkippedPrefixes == {<<"#">>, <<"d", "a", "t", "a", ":">>, <<"m", "a", "i", "l", "t", "o", ":">>, <<"t", "e", "l", ":">>, <<"j", "a", "v", "a", "s", "c", "r", "i", "p", "t", ":">>}

\* The index of the first character of s, from i on, that is in chars; Len(s) + 1 if none
RECURSIVE indexOfAny(_, _, _)
indexOfAny(s, chars, i) ==
    IF i > Len(s) THEN i ELSE IF s[i] \in chars THEN i ELSE indexOfAny(s, chars, i + 1)

RECURSIVE lastIndexOf(_, _, _)
lastIndexOf(s, ch, i) ==
    IF i = 0 THEN 0 ELSE IF s[i] = ch THEN i ELSE lastIndexOf(s, ch, i - 1)

\* s.split(ch): the list of the parts between the separators
RECURSIVE splitOn(_, _, _, _)
splitOn(s, ch, cur, acc) ==
    IF s = <<>> THEN Append(acc, cur)
    ELSE IF Head(s) = ch THEN splitOn(Tail(s), ch, <<>>, Append(acc, cur))
    ELSE splitOn(Tail(s), ch, Append(cur, Head(s)), acc)

\* The scheme a reference starts with, colon included; <<>> if it has none
schemePrefix(s) ==
    LET k == indexOfAny(s, {":"}, 1)
    IN  IF /\ k <= Len(s)
           /\ k > 1
           /\ s[1] \in LowerAlnum /\ ~IsDigit(s[1])
           /\ \A i \in 1..(k - 1) : s[i] \in LowerAlnum \cup {"+", "-", "."}
        THEN SubSeq(s, 1, k)
        ELSE <<>>

\* The path state and the query state of the URL parser; the fragment is dropped
\* (nothing in the rewriter reads it)
pathAndQuery(rest) ==
    LET noHash == SubSeq(rest, 1, indexOfAny(rest, {"#"}, 1) - 1)
        q == indexOfAny(noHash, {"?"}, 1)
        query == SubSeq(noHash, q, Len(noHash))
    IN  [pathname |-> SubSeq(noHash, 1, q - 1),
         search |-> IF Len(query) > 1 THEN query ELSE <<>>]

InvalidUrl == [ok |-> FALSE, protocol |-> <<>>, host |-> <<>>, pathname |-> <<>>, search |-> <<>>]

\* The authority state, for a special scheme: user info is dropped, the host is
\* lowercased, the scheme's default port is dropped, an empty host is a TypeError
authorityAndPath(protocol, rest) ==
    LET stop == indexOfAny(rest, {"/", "?", "#"}, 1)
        authority == SubSeq(rest, 1, stop - 1)
        at == lastIndexOf(authority, "@", Len(authority))
        hostPort == ToLowerCase(SubSeq(authority, at + 1, Len(authority)))
        defaultPort == IF protocol = sHttps THEN <<":", "4", "4", "3">> ELSE <<":", "8", "0">>
        host == IF EndsWith(hostPort, defaultPort)
                THEN SubSeq(hostPort, 1, Len(hostPort) - Len(defaultPort))
                ELSE hostPort
        pq == pathAndQuery(SubSeq(rest, stop, Len(rest)))
    IN  IF host = <<>> THEN InvalidUrl
        ELSE [ok |-> TRUE, protocol |-> protocol, host |-> host,
              pathname |-> IF pq.pathname = <<>> THEN <<"/">> ELSE pq.pathname,
              search |-> pq.search]

\* The relative state: a reference without a scheme, against a base of a special scheme
relativeTo(ref, base) ==
    IF StartsWith(ref, sSlashes)
    THEN authorityAndPath(base.protocol, SubSeq(ref, 3, Len(ref)))
    ELSE IF StartsWith(ref, <<"/">>)
    THEN [base EXCEPT !.pathname = pathAndQuery(ref).pathname,
                      !.search = pathAndQuery(ref).search]
    ELSE IF ref = <<>> \/ StartsWith(ref, <<"#">>) THEN base
    ELSE IF StartsWith(ref, <<"?">>) THEN [base EXCEPT !.search = pathAndQuery(ref).search]
    ELSE [base EXCEPT
             !.pathname = SubSeq(base.pathname, 1, lastIndexOf(base.pathname, "/",
                                                               Len(base.pathname)))
                          \o pathAndQuery(ref).pathname,
             !.search = pathAndQuery(ref).search]

\* new URL(value, base): leading and trailing blanks are stripped first
newURL(value, base) ==
    LET ref == Trim(value)
        scheme == schemePrefix(ref)
        rest == SubSeq(ref, Len(scheme) + 1, Len(ref))
    IN  IF scheme = <<>> THEN relativeTo(ref, base)
        ELSE IF scheme \in {sHttps, sHttp}
        THEN IF scheme = base.protocol /\ ~StartsWith(rest, sSlashes)
             THEN relativeTo(rest, base)
             ELSE authorityAndPath(scheme, TrimLeft(rest, "/"))
        ELSE [ok |-> TRUE, protocol |-> scheme, host |-> <<>>, pathname |-> rest,
              search |-> <<>>]

\* URL.origin: "null" for the schemes that are not special
urlOrigin(url) ==
    IF url.protocol \in {sHttps, sHttp} THEN url.protocol \o sSlashes \o url.host ELSE <<"n", "u", "l", "l">>

\* encodeURIComponent, character by character
encodeChar(c) ==
    IF c \in LowerAlnum \cup {"-", "_", ".", "!", "~", "*", "'", "(", ")"} THEN <<c>>
    ELSE CASE c = "/" -> <<"%", "2", "F">> [] c = "?" -> <<"%", "3", "F">> [] c = "#" -> <<"%", "2", "3">>
           [] c = ":" -> <<"%", "3", "A">> [] c = " " -> <<"%", "2", "0">> [] c = "," -> <<"%", "2", "C">>
           [] c = "@" -> <<"%", "4", "0">> [] c = "=" -> <<"%", "3", "D">> [] c = "%" -> <<"%", "2", "5">>

RECURSIVE encodeURIComponent(_)
encodeURIComponent(s) ==
    IF s = <<>> THEN <<>> ELSE encodeChar(Head(s)) \o encodeURIComponent(Tail(s))

\* buildMirrorPath that keeps the path "/"
buildMirrorPath_keepsRoot(slug, url) ==
    <<"/", "m", "/">> \o encodeURIComponent(slug) \o url.pathname \o url.search

buildMirrorPath(slug, url) ==
    LET path == IF url.pathname = <<"/">> THEN <<>> ELSE url.pathname
    IN  <<"/", "m", "/">> \o encodeURIComponent(slug) \o path \o url.search

\* raw is the attribute's value; undefined and '' are both <<>>
maybeRewriteUrl(raw, baseUrl, targetOrigin, slug) ==
    LET value == Trim(raw)
        absolute == newURL(value, baseUrl)
    IN  IF raw = <<>> THEN raw
        ELSE IF value = <<>> THEN raw
        ELSE IF \E p \in SkippedPrefixes : StartsWith(value, p) THEN raw
        ELSE IF ~absolute.ok THEN raw
        ELSE IF urlOrigin(absolute) # urlOrigin(targetOrigin) THEN raw
        ELSE buildMirrorPath(slug, absolute)

\* item.split(/\s+/, 2) of a trimmed, non-empty item: the first two words
firstWords(item) ==
    LET stop == indexOfAny(item, {" "}, 1)
        after == TrimLeft(SubSeq(item, stop, Len(item)), " ")
    IN  [urlPart |-> SubSeq(item, 1, stop - 1),
         descriptor |-> SubSeq(after, 1, indexOfAny(after, {" "}, 1) - 1)]

RECURSIVE joinWith(_, _)
joinWith(items, sep) ==
    IF items = <<>> THEN <<>>
    ELSE IF Len(items) = 1 THEN items[1]
    ELSE items[1] \o sep \o joinWith(Tail(items), sep)

\* The candidates of a srcset: the parts between commas, trimmed, the empty ones dropped
srcsetParts(raw) ==
    LET trimmed == [i \in 1..Len(splitOn(raw, ",", <<>>, <<>>)) |->
                        Trim(splitOn(raw, ",", <<>>, <<>>)[i])]
    IN  SelectSeq(trimmed, LAMBDA item : item # <<>>)

rewriteSrcset(raw, baseUrl, targetOrigin, slug) ==
    LET parts == srcsetParts(raw)
        rewritten == [i \in 1..Len(parts) |->
            LET words == firstWords(parts[i])
                next == maybeRewriteUrl(words.urlPart, baseUrl, targetOrigin, slug)
            IN  IF words.descriptor # <<>> THEN next \o <<" ">> \o words.descriptor ELSE next]
    IN  IF raw = <<>> THEN raw ELSE joinWith(rewritten, <<",", " ">>)

\* The selectors and the attributes rewritten for each
attrSelectors ==
    << <<"a", <<"href">> >>, <<"link", <<"href">> >>, <<"script", <<"src">> >>,
       <<"img", <<"src">> >>, <<"img", <<"srcset">> >>, <<"source", <<"src", "srcset">> >>,
       <<"video", <<"src", "poster">> >>, <<"audio", <<"src">> >>, <<"iframe", <<"src">> >>,
       <<"form", <<"action">> >> >>

\* Some selector of the list names the attribute for the element's tag
selected(tag, attr) ==
    \E i \in 1..Len(attrSelectors) :
        attrSelectors[i][1] = tag /\ \E j \in 1..Len(attrSelectors[i][2]) :
                                         attrSelectors[i][2][j] = attr

\* The body of the loop for one element and one attribute (each pair of a tag and
\* an attribute is named by one selector only, so it runs once)
rewriteAttr(el, baseUrl, targetOrigin, slug) ==
    LET current == el.value
        next == IF el.attr = "srcset" THEN rewriteSrcset(current, baseUrl, targetOrigin, slug)
                ELSE maybeRewriteUrl(current, baseUrl, targetOrigin, slug)
    IN  IF ~selected(el.tag, el.attr) THEN el
        ELSE IF current = <<>> THEN el
        ELSE IF next # <<>> THEN [el EXCEPT !.value = next]
        ELSE el

rewriteHtmlDocument(doc, baseUrl, targetOrigin, slug) ==
    [bases |-> 0,
     robots |-> IF doc.robots = 0 THEN 1 ELSE doc.robots,
     elements |-> [i \in 1..Len(doc.elements) |->
                      rewriteAttr(doc.elements[i], baseUrl, targetOrigin, slug)]]

\* The rewriter is applied to the document, or to its own output
RewriteHtml(limit) ==
    /\ page.passes < limit
    /\ page' = [page EXCEPT !.passes = page.passes + 1,
                            !.previous = page.html,
                            !.html = rewriteHtmlDocument(page.html, page.baseUrl,
                                                         page.targetOrigin, page.slug)]
    /\ UNCHANGED <<allowHttp, allowlist, allowlistFile, serviceDisabled, mirrors, files, now, reqs,
                   adminEvent, lastMiss, started, cacheOp, fsPending, allowlistDisk>>

(***************************************************************************)
(* Specification of the HTML rewriter: documents with references of every  *)
(* kind, rewritten and rewritten again                                     *)
(***************************************************************************)
\* How often the rewriter is applied in a run of SpecRewrite
MaxPasses == 2
urlAB == [ok |-> TRUE, protocol |-> sHttps, host |-> hAB, pathname |-> <<"/">>, search |-> <<>>]

BaseUrls ==
    {urlAB, [urlAB EXCEPT !.pathname = <<"/", "d", "/", "p">>], [urlAB EXCEPT !.host = hCD]}

AttrValues ==
    {<<>>, <<" ">>, <<"/">>, <<"/", "x">>, <<"/", "x", "?", "q", "=", "1">>, <<"/", "x", "#", "f">>, <<"y">>, <<" ", "/", "x", " ">>, <<"?", "q", "=", "1">>, <<"/", "/", "a", ".", "b", "/", "x">>,
     <<"h", "t", "t", "p", "s", ":", "/", "/", "a", ".", "b", "/", "x">>, <<"h", "t", "t", "p", "s", ":", "/", "/", "a", ".", "b", ":", "4", "4", "3", "/">>, <<"h", "t", "t", "p", "s", ":", "/", "/", "a", ".", "b", ":", "8", "4", "4", "3", "/", "x">>, <<"h", "t", "t", "p", ":", "/", "/", "a", ".", "b", "/", "x">>,
     <<"h", "t", "t", "p", "s", ":", "/", "/", "c", ".", "d", "/", "x">>, <<"h", "t", "t", "p", "s", ":", "/", "/", "x", ".", "a", ".", "b", "/", "x">>, <<"#", "f">>, <<"d", "a", "t", "a", ":", "x">>, <<"m", "a", "i", "l", "t", "o", ":", "x">>, <<"t", "e", "l", ":", "1">>,
     <<"j", "a", "v", "a", "s", "c", "r", "i", "p", "t", ":", "x">>, <<"f", "t", "p", ":", "/", "/", "a", ".", "b", "/", "x">>, <<"/", "m", "/", "a", "-", "b", "/", "x">>}

SrcsetValues ==
    {<<>>, <<",">>, <<"/", "x">>, <<"/", "x", " ", "1", "x", ",", " ", "/", "y", " ", "2", "x">>, <<"/", "x", " ", "1", "x", ",", "h", "t", "t", "p", "s", ":", "/", "/", "c", ".", "d", "/", "y", " ", "2", "x">>, <<"h", "t", "t", "p", "s", ":", "/", "/", "c", ".", "d", "/", "x", " ", "1", "x", ",", "h", "t", "t", "p", "s", ":", "/", "/", "c", ".", "d", "/", "y", " ", "2", "x">>,
     <<" ", "/", "x", " ", " ", "2", "x", " ">>, <<"d", "a", "t", "a", ":", "x", " ", "1", "x">>}

Tags == {"a", "link", "script", "img", "source", "video", "audio", "iframe", "form", "div"}

Elements ==
    {[tag |-> t, attr |-> a, value |-> v] :
        t \in Tags, a \in {"href", "src", "poster", "action"}, v \in AttrValues}
    \cup {[tag |-> t, attr |-> "srcset", value |-> v] : t \in {"img", "source", "a"},
                                                         v \in SrcsetValues}

\* The elements of the documents that have two
PairElements ==
    {[tag |-> "a", attr |-> "href", value |-> <<"/", "x">>],
     [tag |-> "img", attr |-> "src", value |-> <<"y">>],
     [tag |-> "div", attr |-> "href", value |-> <<"/", "x">>]}

Documents ==
    {[bases |-> b, robots |-> r, elements |-> e] :
        b \in 0..1, r \in 0..2,
        e \in {<<>>} \cup {<<el>> : el \in Elements} \cup (PairElements \X PairElements)}

InitRewrite ==
    /\ allowHttp = FALSE
    /\ allowlist = <<>>
    /\ allowlistFile = <<>>
    /\ serviceDisabled = FALSE
    /\ mirrors = <<>>
    /\ files = EmptyDir
    /\ now = 0
    /\ reqs = [c \in Clients |-> Idle]
    /\ adminEvent = ""
    /\ lastMiss = NoMiss
    /\ started = 0
    /\ cacheOp = NoOp
    /\ fsPending = <<>>
    /\ allowlistDisk = FileAtRest
    /\ page \in {[passes |-> 0, html |-> d, input |-> d, previous |-> d, baseUrl |-> b,
                  targetOrigin |-> urlAB, slug |-> SlugAB] : d \in Documents, b \in BaseUrls}

NextRewrite == RewriteHtml(MaxPasses)

SpecRewrite == InitRewrite /\ [][NextRewrite]_vars


\* C22: rewriting the rewriter's own output with the same baseUrl, targetOrigin
\* and slug gives that output again: the second pass changes nothing
C22_RewriteIdempotent ==
    page.passes = 2 => page.html = page.previous

\* The value a URL attribute is to have after the rewriting: the value itself if
\* it starts with a skipped prefix (or, with skipBlank, is empty or blank), the
\* mirror path /m/<slug><path><search> (no path for "/") if it resolves against
\* baseUrl to the target origin, and the value itself otherwise
rewrittenValue(value, baseUrl, targetOrigin, slug, skipBlank) ==
    LET url == newURL(value, baseUrl)
    IN  IF skipBlank /\ Trim(value) = <<>> THEN value
        ELSE IF \E p \in SkippedPrefixes : StartsWith(Trim(value), p) THEN value
        ELSE IF url.ok /\ urlOrigin(url) = urlOrigin(targetOrigin)
        THEN <<"/", "m", "/">> \o encodeURIComponent(slug)
             \o (IF url.pathname = <<"/">> THEN <<>> ELSE url.pathname) \o url.search
        ELSE value

\* The URLs of the candidates of a srcset
candidateUrls(value) ==
    [i \in 1..Len(srcsetParts(value)) |-> firstWords(srcsetParts(value)[i]).urlPart]

\* The descriptors of the candidates of a srcset
candidateDescriptors(value) ==
    [i \in 1..Len(srcsetParts(value)) |-> firstWords(srcsetParts(value)[i]).descriptor]

\* After a pass, element i: an attribute of the rewritten set has the value it is
\* to have (for a srcset: each candidate's URL has); any other attribute is as before
attributeRewritten(i, skipBlank) ==
    LET before == page.previous.elements[i]
        after == page.html.elements[i]
    IN  /\ after.tag = before.tag /\ after.attr = before.attr
        /\ IF ~selected(before.tag, before.attr) THEN after.value = before.value
           ELSE IF before.attr = "srcset"
           THEN /\ candidateDescriptors(after.value) = candidateDescriptors(before.value)
                /\ candidateUrls(after.value) =
                      [j \in 1..Len(candidateUrls(before.value)) |->
                          rewrittenValue(candidateUrls(before.value)[j], page.baseUrl,
                                         page.targetOrigin, page.slug, skipBlank)]
           ELSE after.value = rewrittenValue(before.value, page.baseUrl, page.targetOrigin,
                                             page.slug, skipBlank)

wroteEntry(c) ==
    /\ reqs[c].kind = "mirror"
    /\ reqs[c].pc = "done"
    /\ reqs[c].method = "GET"
    /\ reqs[c].fetches > 0
    /\ reqs[c].reply.error = ""
    /\ reqs[c].reply.status >= 200 /\ reqs[c].reply.status < 300
    /\ reqs[c].reply.body.size * 2 <= maxBytes

\* C24: the cache entry a mirror GET writes is keyed by the slug and by the key of
\* the method and the final URL, the URL reached after the redirects were followed
C24_EntryKeyedByFinalUrl ==
    wroteEntry("c1") =>
        /\ lastMiss.slug = reqs["c1"].slug
        /\ lastMiss.key = key("GET", reqs["c1"].lastFetch.url)
        /\ metaPath(reqs["c1"].slug, key("GET", reqs["c1"].lastFetch.url)) \in DOMAIN files

(***************************************************************************)
(* Specification of the allowlist store: the admin upserts, patches and    *)
(* removes entries of every shape and reloads the file, which an operator  *)
(* may have edited by hand in between                                      *)
(***************************************************************************)
hDottedAB == <<" ", ".", "A", ".", "B", ".">>

StoreEntries ==
    {Entry(id, host, subs, schemes, enabled) :
        id \in {"ab", "cd"}, host \in {hAB, hDottedAB, hCD}, subs \in BOOLEAN,
        schemes \in {<<>>, <<"https">>, <<"https", "http">>}, enabled \in BOOLEAN}

\* The bodies PATCH /internal/allowlist/:id accepts: any part of an entry but its id
StorePatches ==
    {[enabled |-> FALSE], [enabled |-> TRUE], [schemes |-> <<>>], [schemes |-> <<"http">>],
     [host |-> hDottedAB, allowSubdomains |-> TRUE], [allowSubdomains |-> FALSE]}

\* What the file may hold after an operator edited it
EditedFiles ==
    {<<Entry("ab", hAB, TRUE, <<"https">>, TRUE)>>,
     <<Entry("ab", hDottedAB, FALSE, <<"ftp">>, TRUE)>>,
     <<Entry("cd", hCD, FALSE, <<>>, TRUE), Entry("ab", hAB, FALSE, <<"http", "gopher">>, FALSE)>>}

\* The operator writes the allowlist file; the store's state is as it was
AllowlistFileEdited(entries) ==
    /\ allowlistFile' = entries
    /\ UNCHANGED <<allowHttp, allowlist, serviceDisabled, mirrors, files, now, reqs, adminEvent,
                   lastMiss, started, cacheOp, fsPending, page, allowlistDisk>>

NextAllowlist ==
    \/ \E e \in StoreEntries : AllowlistUpsert(e)
    \/ \E id \in {"ab", "cd"}, p \in StorePatches : AllowlistPatch(id, p)
    \/ \E id \in {"ab", "cd"} : AllowlistRemove(id)
    \/ AllowlistReload
    \/ \E f \in EditedFiles : AllowlistFileEdited(f)

SpecAllowlist == Init /\ [][NextAllowlist]_vars

\* The URLs match is asked about
MatchUrls ==
    {MkUrl(protocol, host, "/") :
        protocol \in {"https:", "http:"},
        host \in {hAB, hXAB, hZAB, hCD, <<"a", ".", "b", ".">>, <<"b">>}}

\* The request host is some label sequence, a dot, and the entry's host
isSubdomainOf(requestHost, entryHost) ==
    \E n \in 0..Len(requestHost) :
        requestHost = SubSeq(requestHost, 1, n) \o <<".">> \o entryHost

\* C25: match returns an entry exactly when some entry is enabled, lists the URL's
\* scheme, and has the normalized request host as its host or, with
\* allowSubdomains, as a suffix after a dot; isAllowed is true exactly when match
\* returns an entry
C25_MatchExactly ==
    \A url \in MatchUrls :
        LET requestHost == normalizeHost(url.hostname)
            scheme == IF url.protocol = "https:" THEN "https" ELSE "http"
            some == \E i \in 1..Len(allowlist) :
                        /\ allowlist[i].enabled
                        /\ \E j \in 1..Len(allowlist[i].schemes) : allowlist[i].schemes[j] = scheme
                        /\ \/ allowlist[i].host = requestHost
                           \/ /\ allowlist[i].allowSubdomains
                              /\ isSubdomainOf(requestHost, allowlist[i].host)
        IN  /\ (match(allowlist, url) # NoEntry) <=> some
            /\ isAllowed(allowlist, url) <=> (match(allowlist, url) # NoEntry)
            /\ match(allowlist, url) # NoEntry => Includes(allowlist, match(allowlist, url))

\* A disabled entry for c.d stands before an enabled one for a.b that allows
\* subdomains over https only: c.d does not match, x.a.b matches over https and
\* not over http, za.b does not match, and the trailing dot of a.b. is ignored
C25_Witness ==
    /\ Len(allowlist) = 2
    /\ ~allowlist[1].enabled
    /\ match(allowlist, MkUrl("https:", hCD, "/")) = NoEntry
    /\ match(allowlist, MkUrl("https:", hXAB, "/")) = allowlist[2]
    /\ match(allowlist, MkUrl("http:", hXAB, "/")) = NoEntry
    /\ match(allowlist, MkUrl("https:", hZAB, "/")) = NoEntry
    /\ match(allowlist, MkUrl("https:", <<"a", ".", "b", ".">>, "/")) = allowlist[2]

(***************************************************************************)
(* Specification of concurrent mirror requests: two clients GET the same   *)
(* page of one mirror, their handlers interleaving at every await, and the *)
(* upstream answers them differently                                       *)
(***************************************************************************)
\* How many requests the two clients send in a run of SpecGetRace
MaxGetRaceRequests == 4
\* The latest time the clock reaches in a run of SpecGetRace
MaxGetRaceNow == 1000

GetRaceResponses ==
    {Upstream(200, NoUrl, HtmlHeaders, 1), Upstream(200, NoUrl, BinaryHeaders, 2),
     Upstream(200, NoUrl, BinaryHeaders, 3), Upstream(404, NoUrl, BinaryHeaders, 1)}

NextGetRace ==
    \/ AllowlistUpsert(Entry("ab", hAB, FALSE, <<"https">>, TRUE))
    \/ ResolveStart("c1", MkUrl("https:", hAB, "/"), MaxGetRaceRequests)
    \/ ResolveLookupDone("c1")
    \/ Tick(MaxGetRaceNow)
    \/ \E c \in Clients : MirrorStart(c, "GET", SlugAB, "/", 0, MaxGetRaceRequests)
    \/ \E c \in Clients : HopLookupDone(c)
    \/ \E c \in Clients, r \in GetRaceResponses : FetchSettles(c, "", r)
    \/ \E c \in Clients : FetchSettles(c, "fetch failed", NoResponse)
    \/ \E c \in Clients : BodyArrives(c, "")

SpecGetRace == Init /\ [][NextGetRace]_vars

\* The key both clients' requests have
raceKey == key("GET", MkUrl("https:", hAB, "/"))

\* C26: when two GETs of the same page of a mirror run concurrently on a cold
\* cache, the cache holds at most one entry for their key, in every state its
\* metadata file and its body file are there together and were written by the
\* same call of set, the call made last; metadata of one request is never paired
\* with the body of the other
C26_EntryFromLastSet ==
    LET metaName == metaPath(SlugAB, raceKey)
        bodyName == bodyPath(SlugAB, raceKey)
    IN  /\ DOMAIN files \subseteq {metaName, bodyName}
        /\ metaName \in DOMAIN files <=> bodyName \in DOMAIN files
        /\ metaName \in DOMAIN files =>
              /\ lastMiss.slug = SlugAB /\ lastMiss.key = raceKey
              /\ files[bodyName] = lastMiss.body
              /\ files[metaName].cachedAt = lastMiss.at
              /\ files[metaName].status = lastMiss.status
              /\ files[metaName].size = files[bodyName].size
              /\ isHtml(files[metaName].contentType) <=> files[bodyName].rewritten

\* Both requests missed the cold cache (the clock has not moved, so no entry
\* expired between them), both were answered 200 with different bodies of the
\* same size, and both wrote the entry
C26_Witness ==
    /\ now = 0
    /\ wroteEntry("c1") /\ wroteEntry("c2")
    /\ reqs["c1"].events = <<Event("cache-miss", "")>>
    /\ reqs["c2"].events = <<Event("cache-miss", "")>>
    /\ reqs["c1"].upstream # reqs["c2"].upstream
    /\ reqs["c1"].reply.body.size = reqs["c2"].reply.body.size
    /\ metaPath(SlugAB, raceKey) \in DOMAIN files

(***************************************************************************)
(* Specification of the allowlist file, one file-system call at a time:    *)
(* save is fs.writeFileSync, which opens the file with O_TRUNC and then    *)
(* writes the document; the process may stop between the two               *)
(***************************************************************************)
\* The store is running and no call is writing the file
storeIdle == allowlistDisk = FileAtRest

\* upsert up to the point where writeFileSync has opened the file
UpsertBegins(entry) ==
    /\ storeIdle
    /\ allowlist' = upsert(allowlist, entry)
    /\ allowlistDisk' = [text |-> "empty", writer |-> "Allowlist entry upserted"]
    /\ UNCHANGED <<allowHttp, allowlistFile, serviceDisabled, mirrors, files, now, reqs, adminEvent,
                   lastMiss, started, cacheOp, fsPending, page>>

\* patch of an entry the store has, up to the same point
PatchBegins(id, p) ==
    /\ storeIdle
    /\ getById(allowlist, id) # NoEntry
    /\ allowlist' = patch(allowlist, id, p)
    /\ allowlistDisk' = [text |-> "empty", writer |-> "Allowlist entry updated"]
    /\ UNCHANGED <<allowHttp, allowlistFile, serviceDisabled, mirrors, files, now, reqs, adminEvent,
                   lastMiss, started, cacheOp, fsPending, page>>

\* remove of an entry the store has, up to the same point
RemoveBegins(id) ==
    /\ storeIdle
    /\ getById(allowlist, id) # NoEntry
    /\ allowlist' = remove(allowlist, id)
    /\ allowlistDisk' = [text |-> "empty", writer |-> "Allowlist entry deleted"]
    /\ UNCHANGED <<allowHttp, allowlistFile, serviceDisabled, mirrors, files, now, reqs, adminEvent,
                   lastMiss, started, cacheOp, fsPending, page>>

\* writeFileSync writes the document and returns; the route logs its event
SaveWrites ==
    /\ allowlistDisk.writer # "none"
    /\ allowlistFile' = allowlist
    /\ allowlistDisk' = FileAtRest
    /\ adminEvent' = allowlistDisk.writer
    /\ UNCHANGED <<allowHttp, allowlist, serviceDisabled, mirrors, files, now, reqs, lastMiss,
                   started, cacheOp, fsPending, page>>

\* The process stops after the file was opened and before the document is
\* written: the file stays empty and the store's state is gone
SaveInterrupted ==
    /\ allowlistDisk.writer # "none"
    /\ allowlistDisk' = [text |-> "empty", writer |-> "none"]
    /\ allowlist' = <<>>
    /\ UNCHANGED <<allowHttp, allowlistFile, serviceDisabled, mirrors, files, now, reqs, adminEvent,
                   lastMiss, started, cacheOp, fsPending, page>>

\* POST /internal/actions/reload of the running store
StoreReloads ==
    /\ storeIdle
    /\ AllowlistReload

SaveEntries ==
    {Entry(id, hAB, FALSE, schemes, enabled) :
        id \in {"ab", "cd"}, schemes \in {<<>>, <<"https", "http">>}, enabled \in BOOLEAN}

SavePatches == {[enabled |-> FALSE], [schemes |-> <<"http">>]}

NextAllowlistSave ==
    \/ \E e \in SaveEntries : UpsertBegins(e)
    \/ \E id \in {"ab", "cd"}, p \in SavePatches : PatchBegins(id, p)
    \/ \E id \in {"ab", "cd"} : RemoveBegins(id)
    \/ SaveWrites
    \/ SaveInterrupted
    \/ StoreReloads

SpecAllowlistSave == Init /\ [][NextAllowlistSave]_vars

\* C27: upsert, patch and remove persist the allowlist atomically: whenever no
\* call is writing the file, a process stop in the middle of a mutation
\* included, the file holds a complete document
C27_FileAlwaysComplete ==
    allowlistDisk.writer = "none" => allowlistDisk.text = "document"

\* The step is a call of set with a body larger than maxBytes / 2
oversizedSet ==
    /\ cacheOp' # cacheOp
    /\ cacheOp'.op = "set"
    /\ cacheOp'.size * 2 > maxBytes

\* C28: a set whose body is larger than maxBytes / 2 returns without writing or
\* removing any file: the directory is as it was, the entry under the same key
\* and the expired entries a prune would have removed included
C28_OversizedSetChangesNothing == [][oversizedSet => files' = files]_vars

\* An oversized set was made for a key whose entry had expired, and the expired
\* entry is still there
C28_Witness ==
    /\ cacheOp.op = "set"
    /\ cacheOp.size * 2 > maxBytes
    /\ cacheOp.at = now
    /\ cacheOp.had
    /\ cacheOp.age > ttlSeconds * 1000
    /\ metaPath(cacheOp.slug, cacheOp.key) \in DOMAIN files
    /\ bodyPath(cacheOp.slug, cacheOp.key) \in DOMAIN files

\* The step is a call of set that stored its entry
storingSet ==
    /\ cacheOp' # cacheOp
    /\ cacheOp'.op = "set"
    /\ cacheOp'.size * 2 <= maxBytes

\* The sizes the metadata files of the set names record in directory dir, added up
RECURSIVE sizesOf(_, _)
sizesOf(dir, names) ==
    IF names = {} THEN 0
    ELSE LET n == CHOOSE x \in names : TRUE IN dir[n].size + sizesOf(dir, names \ {n})

\* The entries prune finds live in a call of set: the one the call wrote, and
\* those that were there, under other keys, with their body file and not expired
liveAtPrune ==
    {metaPath(cacheOp'.slug, cacheOp'.key)} \cup
    {n \in DOMAIN files :
        /\ n.ext = ".json"
        /\ files[n].bodyFile \in DOMAIN files
        /\ now - files[n].cachedAt <= ttlSeconds * 1000}

\* cachedAt and size of such an entry, as prune reads them
readAtPrune(n) ==
    IF n = metaPath(cacheOp'.slug, cacheOp'.key)
    THEN [cachedAt |-> now, size |-> cacheOp'.size]
    ELSE [cachedAt |-> files[n].cachedAt, size |-> files[n].size]

\* C29: the prune of a set evicts live entries oldest first and stops as soon as
\* the total fits: no entry that survives is older than one that was evicted, and
\* had the newest evicted entry been kept the total would have been above
\* maxBytes; a get changes no file it leaves in place, so it never changes an
\* entry's cachedAt
C29_OldestEvictedFirst ==
    [][/\ storingSet =>
            LET evicted == liveAtPrune \ DOMAIN files'
                survivors == {n \in DOMAIN files' : n.ext = ".json"}
            IN  /\ survivors = liveAtPrune \ evicted
                /\ \A e \in evicted, s \in survivors :
                       files'[s].cachedAt >= readAtPrune(e).cachedAt
                /\ sizesOf(files', survivors) <= maxBytes
                /\ evicted # {} =>
                      \E e \in evicted :
                          /\ \A f \in evicted : readAtPrune(f).cachedAt <= readAtPrune(e).cachedAt
                          /\ sizesOf(files', survivors) + readAtPrune(e).size > maxBytes
       /\ (cacheOp' # cacheOp /\ cacheOp'.op = "get") =>
              \A n \in DOMAIN files' : n \in DOMAIN files /\ files'[n] = files[n]
      ]_vars

\* A set evicted a live entry that was older than the call, and an entry as
\* young as the call, under another key, is still there
C29_Witness ==
    /\ cacheOp.op = "set"
    /\ cacheOp.size * 2 <= maxBytes
    /\ \E e \in DOMAIN cacheOp.removed :
          /\ e.ext = ".json"
          /\ e.key # cacheOp.key
          /\ cacheOp.removed[e].cachedAt < cacheOp.at
          /\ cacheOp.at - cacheOp.removed[e].cachedAt <= ttlSeconds * 1000
    /\ \E s \in DOMAIN files :
          /\ s.ext = ".json"
          /\ s.key # cacheOp.key
          /\ files[s].cachedAt = cacheOp.at

\* C30: in every state the store reaches through upsert, patch, remove and
\* reload, the schemes of every entry are a non-empty list of https and http
C30_SchemesNonEmptySubset ==
    \A i \in 1..Len(allowlist) :
        /\ Len(allowlist[i].schemes) > 0
        /\ \A j \in 1..Len(allowlist[i].schemes) : allowlist[i].schemes[j] \in {"https", "http"}


(***************************************************************************)
(* Specification of slug allocation: resolves of new origins of host a.b   *)
(* (one per port) on a registry that already holds the slug a-b and the    *)
(* numbered slugs a-b-2 .. a-b-n of earlier origins of the same host       *)
(***************************************************************************)
\* How many resolves the client sends in a run of SpecSlug
MaxSlugResolves == 3

\* The row createMirror left for the i-th origin of host a.b (port i, none for the first)
numberedRow(i) ==
    [slug |-> IF i = 1 THEN SlugAB ELSE SlugAB \o <<"-">> \o IntToChars(i),
     targetOrigin |-> <<"https:", hAB, IF i = 1 THEN "" ELSE ToString(i)>>,
     lastPath |-> "/", disabled |-> FALSE]

\* The registry after the first n origins of host a.b were resolved
registryUpTo(n) == [i \in 1..n |-> numberedRow(i)]

\* The registries a run starts from: empty, a-b and a-b-2 taken, a-b .. a-b-999 taken
SlugFills == {0, 2, 999}

SlugUrls ==
    {WithPort(MkUrl("https:", hAB, "/"), port) : port \in {"1000", "1001", "1002"}}

InitSlug ==
    /\ allowHttp = FALSE
    /\ allowlist = <<>>
    /\ allowlistFile = <<>>
    /\ serviceDisabled = FALSE
    /\ mirrors \in {registryUpTo(n) : n \in SlugFills}
    /\ files = EmptyDir
    /\ now = 0
    /\ reqs = [c \in Clients |-> Idle]
    /\ adminEvent = ""
    /\ lastMiss = NoMiss
    /\ started = 0
    /\ cacheOp = NoOp
    /\ fsPending = <<>>
    /\ page = NoPage
    /\ allowlistDisk = FileAtRest

NextSlug ==
    \/ AllowlistUpsert(Entry("ab", hAB, FALSE, <<"https">>, TRUE))
    \/ \E u \in SlugUrls : ResolveStart("c1", u, MaxSlugResolves)
    \/ ResolveLookupDone("c1")

SpecSlug == InitSlug /\ [][NextSlug]_vars

\* C31: the slug resolveOrCreateMirrorForUrl hands to createMirror is never
\* the slug of a row already in table mirrors (the insert never fails on the
\* UNIQUE constraint of column slug): no two rows have the same slug.
C31_AllocatedSlugIsFree ==
    Cardinality({mirrors[i].slug : i \in 1..Len(mirrors)}) = Len(mirrors)


(***************************************************************************)
(* CSS rewriter (mirror/rewrite-css).  A value postcss-value-parser has    *)
(* parsed is a sequence of nodes [type, value, quote, nodes]: words,       *)
(* quoted strings, spaces, and functions with the nodes of their argument  *)
(***************************************************************************)
wordNode(v) == [type |-> "word", value |-> v, quote |-> <<>>, nodes |-> <<>>]
stringNode(v) == [type |-> "string", value |-> v, quote |-> <<"\"">>, nodes |-> <<>>]
spaceNode == [type |-> "space", value |-> <<" ">>, quote |-> <<>>, nodes |-> <<>>]
functionNode(name, args) == [type |-> "function", value |-> name, quote |-> <<>>, nodes |-> args]

\* valueParser.stringify of a node whose arguments, if any, are words, strings and spaces
stringifyLeaf(node) ==
    IF node.type = "string" THEN node.quote \o node.value \o node.quote ELSE node.value

RECURSIVE stringifyLeaves(_)
stringifyLeaves(nodes) ==
    IF nodes = <<>> THEN <<>> ELSE stringifyLeaf(Head(nodes)) \o stringifyLeaves(Tail(nodes))

stringifyNode(node) ==
    IF node.type = "function" THEN node.value \o <<"(">> \o stringifyLeaves(node.nodes) \o <<")">>
    ELSE stringifyLeaf(node)

RECURSIVE stringify(_)
stringify(nodes) ==
    IF nodes = <<>> THEN <<>> ELSE stringifyNode(Head(nodes)) \o stringify(Tail(nodes))

\* raw.trim().replace(/^['"]|['"]$/g, '')
stripQuotes(raw) ==
    LET quotes == {"'", "\""}
        value == Trim(raw)
        tail == IF value # <<>> /\ Head(value) \in quotes THEN Tail(value) ELSE value
    IN  IF tail # <<>> /\ tail[Len(tail)] \in quotes THEN SubSeq(tail, 1, Len(tail) - 1) ELSE tail

maybeRewriteCssUrl(raw, baseUrl, targetOrigin, slug) ==
    LET value == stripQuotes(raw)
        absolute == newURL(value, baseUrl)
    IN  IF value = <<>> THEN raw
        ELSE IF StartsWith(value, <<"d", "a", "t", "a", ":">>) \/ StartsWith(value, <<"#">>) THEN raw
        ELSE IF ~absolute.ok THEN raw
        ELSE IF urlOrigin(absolute) # urlOrigin(targetOrigin) THEN raw
        ELSE buildMirrorPath(slug, absolute)

\* The callback of walkDecls on one node (lines 34-39)
declCallback(node, baseUrl, targetOrigin, slug) ==
    LET original == stringifyLeaves(node.nodes)
        rewritten == maybeRewriteCssUrl(original, baseUrl, targetOrigin, slug)
    IN  IF node.type # "function" \/ node.value # <<"u", "r", "l">> \/ node.nodes = <<>> THEN node
        ELSE IF rewritten # original THEN [node EXCEPT !.nodes = <<wordNode(rewritten)>>]
        ELSE node

\* The callback of walkAtRules('import') on one node (lines 48-56)
importCallback(node, baseUrl, targetOrigin, slug) ==
    IF node.type \in {"string", "word"}
    THEN [node EXCEPT !.value = maybeRewriteCssUrl(node.value, baseUrl, targetOrigin, slug)]
    ELSE IF node.type = "function" /\ node.value = <<"u", "r", "l">> /\ node.nodes # <<>>
    THEN [node EXCEPT !.nodes =
            <<wordNode(maybeRewriteCssUrl(stringifyLeaves(node.nodes), baseUrl, targetOrigin,
                                          slug))>>]
    ELSE node

\* parsed.walk(callback) of the declarations: only function nodes are changed
walkDecl(nodes, baseUrl, targetOrigin, slug) ==
    [i \in 1..Len(nodes) |-> declCallback(nodes[i], baseUrl, targetOrigin, slug)]

\* parsed.walk(callback) of an @import: the callback runs on a node, and then on
\* the nodes the function node has after its callback returned
walkImport(nodes, baseUrl, targetOrigin, slug) ==
    [i \in 1..Len(nodes) |->
        LET node == importCallback(nodes[i], baseUrl, targetOrigin, slug)
        IN  IF node.type = "function"
            THEN [node EXCEPT !.nodes =
                    [j \in 1..Len(node.nodes) |->
                        importCallback(node.nodes[j], baseUrl, targetOrigin, slug)]]
            ELSE node]

\* rewriteCssText of a stylesheet: the values of its declarations and the
\* params of its @import rules, as text
rewriteCssText(css, baseUrl, targetOrigin, slug) ==
    [decls |-> [i \in 1..Len(css.decls) |->
                    stringify(walkDecl(css.decls[i], baseUrl, targetOrigin, slug))],
     imports |-> [i \in 1..Len(css.imports) |->
                    stringify(walkImport(css.imports[i], baseUrl, targetOrigin, slug))]]

\* The mirror handler rewrites the stylesheet it fetched
RewriteCss ==
    /\ page.passes = 0
    /\ page.input # <<>>
    /\ page' = [page EXCEPT !.passes = 1,
                            !.previous = page.html,
                            !.html = rewriteCssText(page.input, page.baseUrl, page.targetOrigin,
                                                    page.slug)]
    /\ UNCHANGED <<allowHttp, allowlist, allowlistFile, serviceDisabled, mirrors, files, now, reqs,
                   adminEvent, lastMiss, started, cacheOp, fsPending, allowlistDisk>>

(***************************************************************************)
(* Specification of the CSS rewriter: stylesheets of one @import rule and  *)
(* at most one declaration                                                 *)
(***************************************************************************)
CssUrls ==
    {<<"/", "x", ".", "c", "s", "s">>, <<"x", ".", "c", "s", "s">>, <<"/">>, <<"/", "x", ".", "c", "s", "s", "?", "q", "=", "1">>, <<"h", "t", "t", "p", "s", ":", "/", "/", "a", ".", "b", "/", "x", ".", "c", "s", "s">>, <<"h", "t", "t", "p", "s", ":", "/", "/", "c", ".", "d", "/", "x", ".", "c", "s", "s">>, <<"/", "/", "c", ".", "d", "/", "x", ".", "c", "s", "s">>,
     <<"d", "a", "t", "a", ":", "x">>}

\* The URL of an @import: a string, url() of a string, url() of a word
ImportUrls ==
    {<<stringNode(v)>> : v \in CssUrls}
    \cup {<<functionNode(<<"u", "r", "l">>, <<stringNode(v)>>)>> : v \in CssUrls}
    \cup {<<functionNode(<<"u", "r", "l">>, <<wordNode(v)>>)>> : v \in CssUrls}

\* What follows the URL in the params: nothing, a media type, a layer, a media feature
ImportTails ==
    {<<>>, <<spaceNode, wordNode(<<"s", "c", "r", "e", "e", "n">>)>>, <<spaceNode, wordNode(<<"l", "a", "y", "e", "r">>)>>,
     <<spaceNode, functionNode(<<"l", "a", "y", "e", "r">>, <<wordNode(<<"b", "a", "s", "e">>)>>)>>,
     <<spaceNode, functionNode(<<>>, <<wordNode(<<"c", "o", "l", "o", "r">>)>>)>>}

DeclValues ==
    {<<wordNode(<<"r", "e", "d">>)>>, <<functionNode(<<"u", "r", "l">>, <<stringNode(<<"/", "i", ".", "p", "n", "g">>)>>)>>,
     <<functionNode(<<"u", "r", "l">>, <<wordNode(<<"h", "t", "t", "p", "s", ":", "/", "/", "c", ".", "d", "/", "i", ".", "p", "n", "g">>)>>), spaceNode, wordNode(<<"r", "e", "d">>)>>}

Stylesheets ==
    {[imports |-> <<u \o t>>, decls |-> d] :
        u \in ImportUrls, t \in ImportTails, d \in {<<>>} \cup {<<v>> : v \in DeclValues}}

InitCss ==
    /\ allowHttp = FALSE
    /\ allowlist = <<>>
    /\ allowlistFile = <<>>
    /\ serviceDisabled = FALSE
    /\ mirrors = <<>>
    /\ files = EmptyDir
    /\ now = 0
    /\ reqs = [c \in Clients |-> Idle]
    /\ adminEvent = ""
    /\ lastMiss = NoMiss
    /\ started = 0
    /\ cacheOp = NoOp
    /\ fsPending = <<>>
    /\ allowlistDisk = FileAtRest
    /\ page \in {[passes |-> 0, html |-> <<>>, input |-> css, previous |-> <<>>, baseUrl |-> b,
                  targetOrigin |-> urlAB, slug |-> SlugAB] : css \in Stylesheets, b \in BaseUrls}

NextCss == RewriteCss

SpecCss == InitCss /\ [][NextCss]_vars

\* The text a token of the params of an @import is to become: a string or the
\* argument of url() that resolves against baseUrl to the target origin becomes
\* the mirror path /m/<slug><path><search>, every other token stays as it is
mirrorPathOf(value, baseUrl, targetOrigin, slug) ==
    LET url == newURL(value, baseUrl)
    IN  IF value # <<>> /\ ~StartsWith(value, <<"d", "a", "t", "a", ":">>) /\ ~StartsWith(value, <<"#">>)
           /\ url.ok /\ urlOrigin(url) = urlOrigin(targetOrigin)
        THEN <<"/", "m", "/">> \o encodeURIComponent(slug)
             \o (IF url.pathname = <<"/">> THEN <<>> ELSE url.pathname) \o url.search
        ELSE value

tokenTexts(node, baseUrl, targetOrigin, slug) ==
    LET path(v) == mirrorPathOf(v, baseUrl, targetOrigin, slug)
    IN  IF node.type = "string" THEN {node.quote \o path(node.value) \o node.quote}
        ELSE IF node.type = "function" /\ node.value = <<"u", "r", "l">>
        THEN IF path(node.nodes[1].value) = node.nodes[1].value
             THEN {stringifyNode(node)}
             ELSE {<<"u", "r", "l", "(">> \o path(node.nodes[1].value) \o <<")">>,
                   <<"u", "r", "l", "(", "\"">> \o path(node.nodes[1].value) \o <<"\"", ")">>}
        ELSE {stringifyNode(node)}

RECURSIVE paramsTexts(_, _, _, _)
paramsTexts(nodes, baseUrl, targetOrigin, slug) ==
    IF nodes = <<>> THEN {<<>>}
    ELSE {h \o t : h \in tokenTexts(Head(nodes), baseUrl, targetOrigin, slug),
                   t \in paramsTexts(Tail(nodes), baseUrl, targetOrigin, slug)}

\* C32: after rewriteCssText, the params of an @import rule are the params it
\* had with each in-origin URL (a string token or the argument of url())
\* replaced by /m/<url-encoded slug><path><search>, the prefix applied once, and
\* with every other token as it was.
C32_ImportUrlsRewrittenOnce ==
    page.passes = 1 =>
        \A i \in 1..Len(page.input.imports) :
            page.html.imports[i]
                \in paramsTexts(page.input.imports[i], page.baseUrl, page.targetOrigin, page.slug)


(***************************************************************************)
(* Specification of the address guard: resolves of the names of a zone     *)
(* whose records are IPv6 addresses inside and outside the blocked ranges  *)
(***************************************************************************)
\* How many resolves the client sends in a run of SpecGuard
MaxGuardResolves == 2

NextGuard ==
    \/ \E name \in DOMAIN GuardZone :
          ResolveStart("c1", MkUrl("https:", name, "/"), MaxGuardResolves)
    \/ ResolveLookupDone("c1")

SpecGuard == Init /\ [][NextGuard]_vars

\* ip is ::ffff:a.b.c.d for an address a.b.c.d of a blocked IPv4 range
mappedBlockedV4(ip) ==
    LET lower == ToLowerCase(ip)
    IN  /\ StartsWith(lower, <<":", ":", "f", "f", "f", "f", ":">>)
        /\ netIsIP(SubSeq(lower, 8, Len(lower))) = 4
        /\ isPrivateIpv4(SubSeq(lower, 8, Len(lower)))

\* ip is in fe80::/10 (first group fe80 .. febf) or in fc00::/7 (fc00 .. fdff)
inBlockedV6Range(ip) ==
    LET lower == ToLowerCase(ip)
    IN  /\ Len(lower) >= 5 /\ lower[5] = ":" /\ lower[1] = "f"
        /\ \/ lower[2] = "e" /\ lower[3] \in {"8", "9", "a", "b"}
           \/ lower[2] \in {"c", "d"}

\* C33: a resolve of a name whose address is the IPv4-mapped form of an address
\* in a blocked IPv4 range, or an address in fe80::/10 or fc00::/7, is refused
\* with ssrf_blocked (assertSafeIp rejects the address).
C33_MappedAndLocalV6Blocked ==
    \A c \in Clients :
        (/\ reqs[c].kind = "resolve" /\ reqs[c].pc = "done"
         /\ reqs[c].upstreamUrl.hostname \in DOMAIN GuardZone
         /\ \/ mappedBlockedV4(GuardZone[reqs[c].upstreamUrl.hostname])
            \/ inBlockedV6Range(GuardZone[reqs[c].upstreamUrl.hostname]))
        => reqs[c].reply.error = "ssrf_blocked"


\* C34: a set that stores its entry (a body of at most maxBytes / 2) leaves the
\* entry in the directory whatever was there before, entries with the same
\* cachedAt included: the prune it runs does not evict it, and a get made right
\* after it returns the status, headers and body that were stored.
C34_StoredEntrySurvivesPrune ==
    [][storingSet =>
          /\ metaPath(cacheOp'.slug, cacheOp'.key) \in DOMAIN files'
          /\ bodyPath(cacheOp'.slug, cacheOp'.key) \in DOMAIN files'
          /\ \E r \in CachedResponses :
                /\ r.body.size = cacheOp'.size
                /\ get(files', cacheOp'.slug, cacheOp'.key, now).result =
                      [status |-> r.status, headers |-> r.headers, body |-> r.body,
                       contentType |-> r.contentType, cachedAt |-> now]
      ]_vars


(***************************************************************************)
(* Specification of the cache under several mirrors: sets, gets and purges *)
(* for slugs the registry allocates, one a prefix of the next, all under   *)
(* the same cache key                                                      *)
(***************************************************************************)
\* The latest time the clock reaches in a run of SpecCacheSlugs
MaxSlugsNow == 1000

\* The slugs of hosts a and a.b, and the one a second mirror of a.b gets
CacheSlugs ==
    <<slugifyHost(<<"a">>), SlugAB, CHOOSE s \in ensureUniqueSlug(SlugAB, {SlugAB}) : TRUE>>

cacheSlugsKey == key("GET", MkUrl("https:", hAB, "/"))

\* The response the upstream of the i-th slug sends: its etag tells it from the others
slugResponse(i, size) ==
    [status |-> 200, headers |-> setHeader(NoHeaders, "etag", ToString(i)),
     contentType |-> "image/png", body |-> [src |-> "upstream", rewritten |-> FALSE, size |-> size]]

NextCacheSlugs ==
    \/ \E i \in DOMAIN CacheSlugs : CacheGet(CacheSlugs[i], cacheSlugsKey)
    \/ \E i \in DOMAIN CacheSlugs, size \in 1..2 :
          CacheSet(CacheSlugs[i], cacheSlugsKey, slugResponse(i, size))
    \/ \E i \in DOMAIN CacheSlugs : CachePurgeBySlug(CacheSlugs[i])
    \/ Tick(MaxSlugsNow)

SpecCacheSlugs == Init /\ [][NextCacheSlugs]_vars

\* The files of the directory that belong to the i-th slug: its metadata and body file
filesOfSlug(i) == {metaPath(CacheSlugs[i], cacheSlugsKey), bodyPath(CacheSlugs[i], cacheSlugsKey)}

\* C35: the entries of two distinct slugs of the registry do not touch each other:
\* purgeBySlug of a slug removes every file of that slug and no file of another
\* slug, and a get for a slug returns only a response that was stored with a set
\* for the same slug, also when both entries have the same cache key.
C35_SlugsIsolated ==
    [][/\ \A i \in DOMAIN CacheSlugs :
            CachePurgeBySlug(CacheSlugs[i]) =>
                /\ DOMAIN files' \cap filesOfSlug(i) = {}
                /\ \A n \in DOMAIN files \ filesOfSlug(i) :
                       n \in DOMAIN files' /\ files'[n] = files[n]
       /\ (cacheOp' # cacheOp /\ cacheOp'.op = "get" /\ cacheOp'.result # NoCached) =>
              \E i \in DOMAIN CacheSlugs :
                  /\ cacheOp'.slug = CacheSlugs[i]
                  /\ cacheOp'.result.headers["etag"] = ToString(i)
      ]_vars

\* Slug a-b was purged right after its entry had been stored, and the entry of
\* a-b-2 under the same key, stored earlier, is all the directory holds
C35_Witness ==
    /\ adminEvent = "Cache purged by slug"
    /\ cacheOp.op = "set"
    /\ cacheOp.slug = CacheSlugs[2]
    /\ cacheOp.size = 1
    /\ cacheOp.at = now
    /\ DOMAIN files = filesOfSlug(3)
    /\ files[metaPath(CacheSlugs[3], cacheSlugsKey)].cachedAt < now
    /\ files[metaPath(CacheSlugs[3], cacheSlugsKey)].size = 1


(***************************************************************************)
(* Specification of the allowlist's ids: upserts, patches and removes for  *)
(* two ids, on a list that has one of them, both or none, and on a file    *)
(* the operator may have edited since the store read it                    *)
(***************************************************************************)
IdEntries ==
    {Entry(id, host, FALSE, <<"https">>, enabled) :
        id \in {"ab", "cd"}, host \in {hAB, hCD}, enabled \in BOOLEAN}

IdPatches == {[enabled |-> FALSE], [host |-> hDottedAB, allowSubdomains |-> TRUE]}

NextAllowlistIds ==
    \/ \E e \in IdEntries : AllowlistUpsert(e)
    \/ \E id \in {"ab", "cd"}, p \in IdPatches : AllowlistPatch(id, p)
    \/ \E id \in {"ab", "cd"} : AllowlistRemove(id)
    \/ AllowlistReload
    \/ AllowlistFileEdited(<<Entry("cd", hCD, FALSE, <<"https">>, TRUE),
                             Entry("ab", hAB, TRUE, <<"https">>, TRUE)>>)

SpecAllowlistIds == Init /\ [][NextAllowlistIds]_vars

\* No two entries of the list have the same id
distinctIds(entries) ==
    \A i, j \in 1..Len(entries) : entries[i].id = entries[j].id => i = j

\* The list has an entry with this id
knownId(entries, id) == \E i \in 1..Len(entries) : entries[i].id = id

\* C36: when the ids of the allowlist are pairwise distinct, they are so after
\* an upsert, a patch or a remove; an upsert for an id of the list replaces that
\* entry where it stands and leaves the others alone; a patch or remove for an
\* id the list does not have changes neither the list nor the file and logs
\* nothing (the call returned null or false).
C36_IdsStayDistinct ==
    [][distinctIds(allowlist) =>
          /\ ((\E e \in IdEntries : AllowlistUpsert(e))
                 \/ (\E id \in {"ab", "cd"}, p \in IdPatches : AllowlistPatch(id, p))
                 \/ (\E id \in {"ab", "cd"} : AllowlistRemove(id)))
             => distinctIds(allowlist')
          /\ \A e \in IdEntries :
                (AllowlistUpsert(e) /\ knownId(allowlist, e.id)) =>
                    /\ Len(allowlist') = Len(allowlist)
                    /\ \A i \in 1..Len(allowlist) :
                          IF allowlist[i].id = e.id
                          THEN /\ allowlist'[i].id = e.id
                               /\ allowlist'[i].enabled = e.enabled
                               /\ allowlist'[i].allowSubdomains = e.allowSubdomains
                          ELSE allowlist'[i] = allowlist[i]
          /\ \A id \in {"ab", "cd"} :
                ~knownId(allowlist, id) =>
                    /\ \A p \in IdPatches :
                          AllowlistPatch(id, p) =>
                              UNCHANGED <<allowlist, allowlistFile, adminEvent>>
                    /\ AllowlistRemove(id) => UNCHANGED <<allowlist, allowlistFile, adminEvent>>
      ]_vars

\* Entry cd was upserted while it stood before entry ab: ab allows subdomains,
\* which only a patch or a reload gives, so the upsert, the last change, was for cd
C36_Witness ==
    /\ adminEvent = "Allowlist entry upserted"
    /\ Len(allowlist) = 2
    /\ allowlist[1].id = "cd"
    /\ ~allowlist[1].enabled
    /\ allowlist[2].id = "ab"
    /\ allowlist[2].allowSubdomains
    /\ allowlistFile = allowlist


\* The step issues an upstream fetch for client c
fetchIssued(c) == reqs'[c].fetches > reqs[c].fetches

\* The step writes a file of the cache directory
fileWritten == \E n \in DOMAIN files' : n \notin DOMAIN files \/ files'[n] # files[n]

\* C37: while serviceDisabled is set, no mirror request issues an upstream fetch
\* and none writes a cache entry, the requests that had passed the service check
\* before the flag was set and were waiting for a DNS lookup, a fetch or the
\* next hop included.
C37_DisabledStopsRequests ==
    [][(serviceDisabled /\ serviceDisabled') =>
          /\ \A c \in Clients : ~fetchIssued(c)
          /\ ~fileWritten
      ]_vars


(***************************************************************************)
(* Specification of the upstream connections: GET requests for a mirror of *)
(* a.b whose upstream redirects inside a.b, with the resolver free to      *)
(* answer each lookup of the name differently, the guard's and the fetch's *)
(***************************************************************************)
\* How many requests the client sends in a run of SpecConnect
MaxConnectRequests == 3

\* The longest chain of redirects an upstream answers with in a run of SpecConnect
ConnectChain == 1

ConnectResponses ==
    {Upstream(200, NoUrl, BinaryHeaders, 1), Upstream(301, MkUrl("https:", hAB, "/x"), NoHeaders, 0)}

NextConnect ==
    \/ AllowlistUpsert(Entry("ab", hAB, FALSE, <<"https">>, TRUE))
    \/ ResolveStart("c1", MkUrl("https:", hAB, "/"), MaxConnectRequests)
    \/ ResolveLookupDone("c1")
    \/ \E chain \in 0..ConnectChain :
          MirrorStart("c1", "GET", SlugAB, "/", chain, MaxConnectRequests)
    \/ HopLookupDone("c1")
    \/ FetchConnects("c1")
    \/ \E r \in ConnectResponses : reqs["c1"].connected # <<>> /\ FetchSettles("c1", "", r)
    \/ \E e \in FetchErrors : FetchSettles("c1", e, NoResponse)
    \/ NextLookupDone("c1")
    \/ BodyArrives("c1", "")

SpecConnect == Init /\ [][NextConnect]_vars

\* C38: every connection a fetch opens goes to an address the guard accepts
\* (assertSafeIp does not reject it), also when the resolver answers the fetch's
\* own lookup of the host name differently from the guard's lookup before it.
C38_ConnectsOnlyToSafeAddress ==
    \A c \in Clients :
        reqs[c].connected # <<>> =>
            /\ reqs[c].lastFetch.guard = "ok"
            /\ assertSafeIp(reqs[c].connected) = "ok"

=============================================================================
